---- MODULE Spec2Model ----
(***************************************************************************)
(* The app runtime of the T-Embed CC1101 firmware: the App Manager         *)
(* registry (app_manager.c), the sandbox pool (app_sandbox.c), the         *)
(* installer (app_installer.c), the manifest loader (mjs_native_api.c),    *)
(* the scripting engine's context table (mjs_engine.c, mjs.c), the         *)
(* permission parser (app_permissions.c) and the native functions          *)
(* rf.transmit and storage.writeText (js_rf_api.c, js_storage_api.c).      *)
(*                                                                         *)
(* Every App Manager operation takes s_app_mutex on entry and gives it on  *)
(* every return, so each operation is one atomic action.  The initial      *)
(* state is the one after app_manager_init, mjs_engine_init and            *)
(* js_api_init have returned ESP_OK.                                       *)
(*                                                                         *)
(* An app id is the 32-bit value drawn from esp_random(): the text         *)
(* "app_%08x" is an injective rendering of it.  A bitset of permissions is *)
(* the set of its bit positions, so & is \cap and | is \cup.  A pointer to *)
(* a js_context_t is the index of the slot of s_contexts that holds it.    *)
(***************************************************************************)
EXTENDS Integers, Sequences, FiniteSets, TLC

\* ------------------------------------------------------------------------
\* Program constants
\* ------------------------------------------------------------------------
MAX_INSTALLED_APPS == 16
MAX_SANDBOXES == 8
MAX_CONTEXTS == 8
MAX_GLOBALS == 32
NULL == -1
EmptyId == -1

APP_PERM_RF_RECEIVE == {0}
APP_PERM_RF_TRANSMIT == {1}
APP_PERM_GPIO_READ == {2}
APP_PERM_GPIO_WRITE == {3}
APP_PERM_STORAGE_READ == {4}
APP_PERM_STORAGE_WRITE == {5}
APP_PERM_UI_CREATE == {6}
APP_PERM_NETWORK == {7}
APP_PERM_SYSTEM == {8}

APP_STATE_STOPPED == "STOPPED"
APP_STATE_RUNNING == "RUNNING"
APP_STATE_PAUSED == "PAUSED"
APP_STATE_ERROR == "ERROR"

ESP_OK == "ESP_OK"
ESP_FAIL == "ESP_FAIL"
ESP_ERR_NO_MEM == "ESP_ERR_NO_MEM"
ESP_ERR_NOT_FOUND == "ESP_ERR_NOT_FOUND"
ESP_ERR_INVALID_SIZE == "ESP_ERR_INVALID_SIZE"
ESP_ERR_INVALID_STATE == "ESP_ERR_INVALID_STATE"
ESP_ERR_INVALID_ARG == "ESP_ERR_INVALID_ARG"

JS_EXEC_OK == "JS_EXEC_OK"
JS_EXEC_ERROR == "JS_EXEC_ERROR"
JS_EXEC_TIMEOUT == "JS_EXEC_TIMEOUT"

\* ------------------------------------------------------------------------
\* Bounds of the model
\* ------------------------------------------------------------------------
\* esp_random() yields a value of 0..MaxRandom under Spec.
MaxRandom == 2
\* esp_random() yields a value of 0..MaxRandomFull under SpecFull, enough
\* values to fill the registry.
MaxRandomFull == 16

RandomIds == 0..MaxRandom
RandomIdsFull == 0..MaxRandomFull

\* A permission CSV given to parse has at most MaxTokens tokens, each with at
\* most MaxBlanks blanks before and after its word, under SpecStrings.
MaxTokens == 2
MaxBlanks == 1

\* Scripts bind MaxNames names of their own in a global table, under
\* SpecGlobals.
MaxNames == 2
MaxClockSteps == 2
MaxTexts == 2

\* MaxTasks tasks call the App Manager at the same time, under SpecTasks.
MaxTasks == 2
MaxThreads == 2
MaxPoolCalls == 9

\* The expression of a script has at most MaxExprLen symbols, under SpecEngine.
MaxExprLen == 2

\* The Permission Store is called for the app ids 0..MaxPermId and with
\* masks over the permission bits 0..MaxPermBit under SpecPerm.
MaxPermId == 0
MaxPermBit == 1

PermIds == 0..MaxPermId
\* An app id that no install returned and no grant was saved for.
UnknownId == MaxPermId + 1
PermBits == 0..MaxPermBit
Masks == SUBSET PermBits
\* grant and revoke are called with one permission flag.
Flags == {{b} : b \in PermBits}

\* ------------------------------------------------------------------------
\* Permission Store: app_permissions_parse_string
\* ------------------------------------------------------------------------
\* A permission CSV is the sequence of its tokens between commas; a token is
\* a sequence of symbols, each a blank (" ", "\t", "\n", "\r") or a run of
\* other characters.
permission_map ==
    << [name |-> "rf.receive", flag |-> APP_PERM_RF_RECEIVE],
       [name |-> "rf.transmit", flag |-> APP_PERM_RF_TRANSMIT],
       [name |-> "gpio.read", flag |-> APP_PERM_GPIO_READ],
       [name |-> "gpio.write", flag |-> APP_PERM_GPIO_WRITE],
       [name |-> "storage.read", flag |-> APP_PERM_STORAGE_READ],
       [name |-> "storage.write", flag |-> APP_PERM_STORAGE_WRITE],
       [name |-> "ui.create", flag |-> APP_PERM_UI_CREATE],
       [name |-> "network", flag |-> APP_PERM_NETWORK],
       [name |-> "system", flag |-> APP_PERM_SYSTEM] >>

PERMISSION_COUNT == Len(permission_map)

LeadBlanks == {" ", "\t"}
TrailBlanks == {" ", "\t", "\n", "\r"}

\* while (*token == ' ' || *token == '\t') token++;
RECURSIVE SkipLeading(_)
SkipLeading(token) ==
    IF token # <<>> /\ Head(token) \in LeadBlanks
    THEN SkipLeading(Tail(token))
    ELSE token

\* while (end > token && isblank(*end)) { *end = '\0'; end--; }
\* The first symbol is never removed (end > token).
RECURSIVE StripTrailing(_)
StripTrailing(token) ==
    IF Len(token) > 1 /\ token[Len(token)] \in TrailBlanks
    THEN StripTrailing(SubSeq(token, 1, Len(token) - 1))
    ELSE token

TrimToken(token) == StripTrailing(SkipLeading(token))

\* The flag of the first entry of permission_map whose name is the token.
TokenFlag(token) ==
    LET t == TrimToken(token)
        hits == {i \in 1..PERMISSION_COUNT :
                    t = <<permission_map[i].name>>}
    IN  IF hits = {} THEN {}
        ELSE permission_map[CHOOSE i \in hits : \A j \in hits : i <= j].flag

RECURSIVE app_permissions_parse_string(_)
app_permissions_parse_string(csv) ==
    IF csv = <<>> THEN {}
    ELSE TokenFlag(Head(csv)) \cup app_permissions_parse_string(Tail(csv))

\* The names of the entries of permission_map from entry i on whose flag is
\* in permissions, each as a token of the CSV.
RECURSIVE NamesFrom(_, _)
NamesFrom(i, permissions) ==
    IF i > PERMISSION_COUNT THEN <<>>
    ELSE IF (permissions \cap permission_map[i].flag) # {}
         THEN << <<permission_map[i].name>> >> \o NamesFrom(i + 1, permissions)
         ELSE NamesFrom(i + 1, permissions)

\* The CSV with a comma between the names, as the sequence of its tokens.
app_permissions_to_string(permissions) == NamesFrom(1, permissions)

\* ------------------------------------------------------------------------
\* Manifest files and mjs_engine_load_manifest
\* ------------------------------------------------------------------------
\* A manifest file is the sequence of its lines, each a key with a string
\* value.  The file that app_installer_extract_package writes:
DefaultManifestFile ==
    << [key |-> "name", value |-> "Sample App"],
       [key |-> "version", value |-> "1.0.0"],
       [key |-> "author", value |-> "Unknown"],
       [key |-> "entry_point", value |-> "index.js"],
       [key |-> "permissions", value |-> <<<<"rf.receive">>, <<"ui.create">>>>] >>

EmptyManifest ==
    [name |-> "", version |-> "", author |-> "", entry_point |-> "",
     permissions |-> <<>>]

ManifestKeys == {"name", "version", "author", "entry_point", "permissions"}

\* The while (fgets ...) loop: a recognised key overwrites its field.
RECURSIVE ParseManifestLines(_, _)
ParseManifestLines(lines, m) ==
    IF lines = <<>> THEN m
    ELSE LET l == Head(lines)
             m2 == IF l.key \in ManifestKeys
                   THEN [m EXCEPT ![l.key] = l.value]
                   ELSE m
         IN  ParseManifestLines(Tail(lines), m2)

\* Defaults for an empty name and version.
mjs_engine_load_manifest(file) ==
    LET m == ParseManifestLines(file, EmptyManifest)
    IN  [m EXCEPT !.name = IF m.name = "" THEN "Unknown App" ELSE m.name,
                  !.version = IF m.version = "" THEN "1.0.0" ELSE m.version]

\* ------------------------------------------------------------------------
\* Engine global table: mjs_set_global, mjs_set_ffi_func, js_api_register_all
\* ------------------------------------------------------------------------
\* A global table is the sequence of its bindings in insertion order.
GlobalIndex(globals, name) ==
    LET hits == {i \in 1..Len(globals) : globals[i].name = name}
    IN  IF hits = {} THEN 0 ELSE CHOOSE i \in hits : \A j \in hits : i <= j

\* A set_global that never looks for the name in the table.
mjs_set_global_appends(globals, name, val) ==
    IF Len(globals) < MAX_GLOBALS
    THEN Append(globals, [name |-> name, value |-> val])
    ELSE globals

\* A set_global without the capacity check.
mjs_set_global_unbounded(globals, name, val) ==
    LET i == GlobalIndex(globals, name)
    IN  IF i # 0 THEN [globals EXCEPT ![i].value = val]
        ELSE Append(globals, [name |-> name, value |-> val])

mjs_set_global(globals, name, val) ==
    LET i == GlobalIndex(globals, name)
    IN  IF i # 0 THEN [globals EXCEPT ![i].value = val]
        ELSE IF Len(globals) < MAX_GLOBALS
             THEN Append(globals, [name |-> name, value |-> val])
             ELSE globals

\* The function pointer is the value; it is named after the function.
mjs_set_ffi_func(globals, name) ==
    mjs_set_global(globals, name, [native |-> name])

RECURSIVE RegisterNames(_, _)
RegisterNames(globals, names) ==
    IF names = <<>> THEN globals
    ELSE LET g == mjs_set_ffi_func(globals, Head(names))
         \* Len(g) >= 0 is true; it makes TLC evaluate g before the next call.
         IN  IF Len(g) >= 0 THEN RegisterNames(g, Tail(names)) ELSE g

RfApiNames ==
    << "rf.setFrequency", "rf.getFrequency", "rf.setModulation",
       "rf.startReceive", "rf.stopReceive", "rf.transmit", "rf.readSignal",
       "rf.getRssi", "rf.isPresent", "rf.loadPreset" >>
GpioApiNames == << "gpio.setup", "gpio.write", "gpio.read" >>
UiApiNames ==
    << "ui.createScreen", "ui.createButton", "ui.createLabel",
       "ui.showNotification" >>
StorageApiNames ==
    << "storage.writeText", "storage.readText", "storage.setConfig",
       "storage.getConfig", "storage.deleteFile" >>
NotificationApiNames ==
    << "notify.show", "notify.led", "notify.beep", "notify.vibrate",
       "notify.flash" >>

\* rf, gpio, ui, storage, notification, in this order.
js_api_register_all(globals) ==
    RegisterNames(globals,
        RfApiNames \o GpioApiNames \o UiApiNames \o StorageApiNames
        \o NotificationApiNames)

\* The table of a fresh mJS instance (mjs_create: no bindings) after
\* js_api_register_all.
RegisteredGlobals == js_api_register_all(<<>>)

IsBoundNative(globals, name) ==
    LET i == GlobalIndex(globals, name)
    IN  i # 0 /\ globals[i].value = [native |-> name]

\* ------------------------------------------------------------------------
\* Scripting engine: evaluation (mjs_exec, mjs_engine_execute)
\* ------------------------------------------------------------------------
\* A script is the sequence of its symbols.  "1" is a digit, "\"" a quote,
\* "x" an identifier and "+" a character that starts no expression.
DEFAULT_EXEC_TIME_LIMIT == 5000

MJS_NULL == [literal |-> "null"]
MJS_UNDEFINED == [literal |-> "undefined"]

Digits == {"1", "-"}
Quotes == {"\"", "'"}
Identifiers == {"x"}
DeclKeywords == {"var ", "let ", "const "}

\* The least position from i on of a symbol of S in code, or 0.
FirstOf(code, S, i) ==
    LET hits == {k \in i..Len(code) : code[k] \in S}
    IN  IF hits = {} THEN 0 ELSE CHOOSE k \in hits : \A j \in hits : k <= j

\* s_error_callback(msg, NULL, s_error_user_data), when one is set.
mjs_error_handler(reported, callback, msg) ==
    IF callback THEN Append(reported, msg) ELSE reported

\* mjs->error_msg = strdup(msg); mjs->error_handler(mjs, msg, user_data).
\* The handler is the one that create_context installs.
set_error(m, callback, msg) ==
    [m EXCEPT !.error_msg = << msg >>,
              !.reported = mjs_error_handler(m.reported, callback, msg)]

mjs_get_global(globals, name) ==
    LET i == GlobalIndex(globals, name)
    IN  IF i = 0 THEN MJS_UNDEFINED ELSE globals[i].value

\* The value of the expression and the engine instance after it.
eval_expression(m, callback, expr) ==
    IF expr # <<>> /\ Head(expr) \in Digits
    THEN [val |-> [number |-> expr], mjs |-> m]
    ELSE IF expr # <<>> /\ Head(expr) \in Quotes
    THEN LET close == FirstOf(expr, {Head(expr)}, 2)
         IN  IF close = 0
             THEN [val |-> MJS_NULL,
                   mjs |-> set_error(m, callback, "Unterminated string")]
             ELSE [val |-> [string |-> SubSeq(expr, 2, close - 1)],
                   mjs |-> m]
    ELSE IF expr # <<>> /\ Head(expr) \in Identifiers
    THEN [val |-> mjs_get_global(m.globals, Head(expr)), mjs |-> m]
    ELSE [val |-> MJS_NULL, mjs |-> set_error(m, callback, "Syntax error")]

mjs_exec(m, callback, code) ==
    IF FirstOf(code, {"console.log"}, 1) # 0
    THEN LET start == FirstOf(code, {"("}, 1)
             end == FirstOf(code, {")"}, 1)
         IN  IF start # 0 /\ end # 0 /\ start < end
             THEN [val |-> MJS_UNDEFINED,
                   mjs |-> eval_expression(m, callback,
                               SubSeq(code, start + 1, end - 1)).mjs]
             ELSE [val |-> MJS_UNDEFINED, mjs |-> m]
    ELSE IF FirstOf(code, DeclKeywords, 1) # 0
    THEN LET name_start == IF Head(code) \in DeclKeywords THEN 2 ELSE 1
             named == name_start <= Len(code)
                      /\ code[name_start] \in Identifiers
             assigned == named /\ name_start + 1 <= Len(code)
                         /\ code[name_start + 1] = "="
             semi == FirstOf(code, {";"}, name_start + 2)
             expr_end == IF semi = 0 THEN Len(code) ELSE semi - 1
         IN  IF assigned
             THEN LET r == eval_expression(m, callback,
                               SubSeq(code, name_start + 2, expr_end))
                  IN  [val |-> MJS_UNDEFINED,
                       mjs |-> [r.mjs EXCEPT !.globals =
                                   mjs_set_global(r.mjs.globals,
                                                  code[name_start], r.val)]]
             ELSE [val |-> MJS_UNDEFINED, mjs |-> m]
    ELSE eval_expression(m, callback, code)

\* return val == MJS_NULL && false;
mjs_is_error(val) == val = MJS_NULL /\ FALSE

mjs_get_error_message(m) ==
    IF m.error_msg = <<>> THEN "No error" ELSE m.error_msg[1]

\* exec_time > ctx->execution_time_limit_ms, and the same with >=.
TimedOut_at_limit(exec_time, limit) == exec_time >= limit

TimedOut(exec_time, limit) == exec_time > limit

\* mjs_engine_execute on a context with code loaded; exec_time is what the
\* tick counter measured.  reported: the messages s_error_callback was given.
ExecuteScript(ctx, callback, exec_time) ==
    LET r == mjs_exec(ctx.mjs, callback, ctx.code)
        after == [ctx EXCEPT !.mjs = r.mjs, !.is_running = FALSE]
    IN  IF mjs_is_error(r.val)
        THEN [result |-> JS_EXEC_ERROR, val |-> r.val,
              ctx |-> [after EXCEPT !.mjs.reported =
                          mjs_error_handler(r.mjs.reported, callback,
                                            mjs_get_error_message(r.mjs))]]
        ELSE IF TimedOut(exec_time, ctx.execution_time_limit_ms)
        THEN [result |-> JS_EXEC_TIMEOUT, val |-> r.val, ctx |-> after]
        ELSE [result |-> JS_EXEC_OK, val |-> r.val, ctx |-> after]

\* The context start_app hands to execute: created by app_sandbox_create
\* (create_context, js_api_register_all), then code loaded from the entry file.
SandboxContext(code) ==
    [code |-> code, is_running |-> FALSE,
     execution_time_limit_ms |-> DEFAULT_EXEC_TIME_LIMIT,
     mjs |-> [error_msg |-> <<>>, globals |-> RegisteredGlobals,
              reported |-> <<>>]]

\* op: the operation; val: what mjs_exec returned; ret and state: what
\* start_app returns and the state it leaves in the app's record.
Evaluation(op, callback, ctx, exec_time, val, result, ret, state) ==
    [op |-> op, s_error_callback |-> callback, ctx |-> ctx,
     exec_time |-> exec_time, val |-> val, result |-> result, ret |-> ret,
     state |-> state]

\* Nothing evaluated yet: no context, s_error_callback = NULL.
NoEvaluation ==
    Evaluation("none", FALSE,
               [code |-> <<>>, is_running |-> FALSE,
                execution_time_limit_ms |-> 0,
                mjs |-> [error_msg |-> <<>>, globals |-> <<>>,
                         reported |-> <<>>]],
               0, MJS_UNDEFINED, JS_EXEC_OK, ESP_OK, APP_STATE_STOPPED)

\* ------------------------------------------------------------------------
\* Install packages (inputs)
\* ------------------------------------------------------------------------
\* A package is one file at package_path: it exists or not.  manifest is what
\* the package declares about itself; the installer copies the file to
\* index.js and never reads a manifest out of it.
TesterManifest ==
    [name |-> "Tester", version |-> "0.1", entry_point |-> "index.js",
     permissions |-> <<<<"gpio.read">>, <<"rf.transmit">>>>]
Packages ==
    << [exists |-> TRUE, manifest |-> TesterManifest],
       [exists |-> FALSE, manifest |-> TesterManifest] >>
NoPackage == Len(Packages) + 1

\* Faults of the environment during install and start_app.
InstallFaults == {"none", "mkdir", "fopen_dst", "fopen_manifest"}
StartFaults == {"none", "calloc", "fopen", "size", "malloc"}

\* ------------------------------------------------------------------------
\* State
\* ------------------------------------------------------------------------
VARIABLES
    s_installed_apps,   \* the first s_num_installed_apps records of the array
    s_current_app_id,   \* EmptyId when s_current_app_id[0] = '\0'
    s_initialized,      \* app manager initialised, s_app_mutex exists
    s_sandboxes,        \* slot -> sandbox_t
    s_sandbox_count,
    s_contexts,         \* slot -> the js_context_t it points to
    s_context_count,
    fs_dirs,            \* the install directories that exist under /apps
    call                \* the most recent call: its operation, app id,
                        \* result and package, and how often it called
                        \* the collaborator (cc1101_transmit, fopen)

\* The Permission Store (app_permissions.c) keeps its state in NVS.
VARIABLES
    nvs,                \* the u32 entries of the namespace "app_perms":
                        \* a function from the keys that were set
    nvs_namespace,      \* the namespace "app_perms" exists
    pcall               \* the most recent Permission Store call

storevars == << nvs, nvs_namespace, pcall >>

appvars ==
    << s_installed_apps, s_current_app_id, s_initialized, s_sandboxes,
       s_sandbox_count, s_contexts, s_context_count, fs_dirs, call >>

\* A call of app_permissions_parse_string and app_permissions_to_string.
VARIABLES
    fcall               \* the most recent call with its arguments and results

\* The evaluation of a script by mjs_engine_execute.
VARIABLES
    engine              \* s_error_callback and the most recent evaluation

\* The global table of one engine instance.
VARIABLES
    gtable              \* the table, and the most recent call on it

\* One engine context and the source text loaded into it.
VARIABLES
    loader              \* the context, and the most recent load call

\* The tick count of the scheduler.
VARIABLES
    clock               \* xTaskGetTickCount() * portTICK_PERIOD_MS, and how
                        \* often that 32-bit value has wrapped since boot

\* The CC1101 driver (cc1101.c).
VARIABLES
    radio               \* the statics of the driver, the FREQ registers of
                        \* the chip, and the most recent call

\* Tasks that call the App Manager at the same time.
VARIABLES
    s_app_mutex,        \* the task that holds the registry mutex, or NoTask
    task,               \* per task: the operation it is in and where
    current_app_bytes,  \* the characters of the buffer s_current_app_id
    access              \* the most recent read or write of registry state

taskvars == << s_app_mutex, task, current_app_bytes, access >>

\* Threads that call the App Manager and the Permission Store.
VARIABLES
    thread

\* Threads that grant and revoke in the Permission Store.
VARIABLES
    updater

\* The scripting engine: its init state, its mutex and the task inside mjs_engine_deinit.
VARIABLES
    s_engine

\* The number of calls made to the sandbox pool and the context pool.
VARIABLES
    pool_calls

\* The Wi-Fi manager: its event bits, retry counter and status, and the wifi_manager_connect call in progress.
VARIABLES
    wifi

vars ==
    << s_installed_apps, s_current_app_id, s_initialized, s_sandboxes,
       s_sandbox_count, s_contexts, s_context_count, fs_dirs, call,
       nvs, nvs_namespace, pcall, fcall, engine, taskvars, gtable, radio,
       clock, loader,
       thread,
       updater,
       s_engine,
       pool_calls,
       wifi >>

\* What the operations of the App Manager, of the Permission Store and the
\* string functions leave alone.
outside_app_manager == << storevars, fcall, engine, taskvars, gtable,
       radio, clock, loader,
       thread,
       updater,
       s_engine,
       pool_calls,
       wifi >>
outside_store == << appvars, fcall, engine, taskvars, gtable,
       radio, clock, loader,
       thread,
       updater,
       s_engine,
       pool_calls,
       wifi >>
outside_strings == << appvars, storevars, engine, taskvars, gtable,
       radio, clock, loader,
       thread,
       updater,
       s_engine,
       pool_calls,
       wifi >>
outside_engine == << appvars, storevars, fcall, taskvars, gtable,
       radio, clock, loader,
       thread,
       updater,
       s_engine,
       pool_calls,
       wifi >>
outside_tasks == << appvars, storevars, fcall, engine, gtable,
       radio, clock, loader,
       thread,
       updater,
       s_engine,
       pool_calls,
       wifi >>
outside_globals ==
    << appvars, storevars, fcall, engine, taskvars, radio, clock, loader,
       thread,
       updater,
       s_engine,
       pool_calls,
       wifi >>
outside_radio ==
    << appvars, storevars, fcall, engine, taskvars, gtable, clock, loader,
       thread,
       updater,
       s_engine,
       pool_calls,
       wifi >>
outside_clock ==
    << appvars, storevars, fcall, engine, taskvars, gtable, radio, loader,
       thread,
       updater,
       s_engine,
       pool_calls,
       wifi >>
outside_loader ==
    << appvars, storevars, fcall, engine, taskvars, gtable, radio, clock,
       thread,
       updater,
       s_engine,
       pool_calls,
       wifi >>
outside_threads ==
    << fcall, engine, task, current_app_bytes, access, gtable, radio, clock,
       loader,
       updater,
       s_engine,
       pool_calls,
       wifi >>
outside_updaters ==
    << appvars, pcall, fcall, engine, taskvars, gtable, radio, clock, loader,
       thread,
       s_engine,
       pool_calls,
       wifi >>
outside_engine_mutex ==
    << s_installed_apps, s_current_app_id, s_initialized, s_sandboxes,
       s_sandbox_count, fs_dirs, call, storevars, fcall, engine, taskvars,
       gtable, radio, clock, loader, thread, updater,
       pool_calls,
       wifi >>
outside_pools ==
    << s_installed_apps, s_current_app_id, s_initialized, fs_dirs, call,
       storevars, fcall, engine, taskvars, gtable, radio, clock, loader,
       thread, updater, s_engine,
       wifi >>
outside_wifi ==
    << s_installed_apps, s_current_app_id, s_initialized, s_sandboxes,
       s_sandbox_count, s_contexts, s_context_count, fs_dirs, call, nvs,
       nvs_namespace, pcall, fcall, engine, taskvars, gtable, radio, clock,
       loader, thread, updater, s_engine, pool_calls >>

\* globals: the table; bound: for each name the value of its most recent
\* accepted binding; op, name, val: the call; got: what get_global returned.
GTable(globals, bound, op, name, val, got) ==
    [globals |-> globals, bound |-> bound, op |-> op, name |-> name,
     val |-> val, got |-> got]

\* mjs_create: no bindings.
NoGlobals == GTable(<<>>, <<>>, "mjs_create", "", MJS_UNDEFINED, MJS_UNDEFINED)

\* cc1101_config_t: the fields of the configuration that the operations
\* modelled here read. null: the pointer config is NULL; spi_device: the
\* handle is not NULL.
RadioConfig(null, spi_device, frequency_hz) ==
    [null |-> null, spi_device |-> spi_device, frequency_hz |-> frequency_hz]

NullConfig == RadioConfig(TRUE, FALSE, 0)

\* The statics of cc1101.c after the image was loaded, and the FREQ2, FREQ1,
\* FREQ0 registers of the chip once they were written. check: how this build
\* expands ESP_ERROR_CHECK, once a call has shown it. last: the most recent
\* call, its arguments and its result; frequency is the argument of
\* cc1101_set_frequency and the result of cc1101_get_frequency.
RadioCall(op, ret, config, present, start, stop, step) ==
    [op |-> op, ret |-> ret, config |-> config, present |-> present,
     frequency |-> 0, start |-> start, stop |-> stop, step |-> step]

NoRadioCall == RadioCall("none", ESP_OK, NullConfig, FALSE, 0, 0, 0)

Driver(init, frequency_hz, freq_regs, running, start, stop, step) ==
    [s_initialized |-> init, frequency_hz |-> frequency_hz,
     freq_regs |-> freq_regs, s_spectrum_analysis_running |-> running,
     s_spectrum_start_freq |-> start, s_spectrum_stop_freq |-> stop,
     s_spectrum_step_size |-> step]

ZeroDriver == Driver(FALSE, 0, <<>>, FALSE, 0, 0, 0)

NoRadio == [driver |-> ZeroDriver, check |-> "unknown", last |-> NoRadioCall]

\* A uint32_t as its two 16-bit halves.
U32(hi, lo) == [hi |-> hi, lo |-> lo]

ToU32(n) == U32(n \div 65536, n % 65536)

\* a - b and a + b in uint32_t.
Sub32(a, b) ==
    LET borrow == IF a.lo < b.lo THEN 1 ELSE 0
    IN  U32((a.hi - b.hi - borrow) % 65536, (a.lo - b.lo) % 65536)

Add32(a, b) ==
    LET carry == (a.lo + b.lo) \div 65536
    IN  U32((a.hi + b.hi + carry) % 65536, (a.lo + b.lo) % 65536)

\* a > b in uint32_t.
Gt32(a, b) == a.hi > b.hi \/ (a.hi = b.hi /\ a.lo > b.lo)

\* A point in time: ms is the 32-bit millisecond count that the code reads,
\* epoch the number of times it has wrapped, which the code cannot see.
Time(epoch, ms) == [epoch |-> epoch, ms |-> ms]

\* steps: the number of times the clock was advanced.
Boot == [now |-> Time(0, ToU32(0)), steps |-> 0]

\* A source text: id tells two texts apart, len is its size in bytes.
Text(id, len) == [id |-> id, len |-> len]

\* ctx->code == NULL
NoText == Text(0, 0)

\* The fields of js_context_t that the load functions read and write;
\* filename "" is ctx->filename == NULL.
LoadContext(memory_limit, code, filename) ==
    [memory_limit |-> memory_limit, code |-> code, filename |-> filename]

\* text and filename: the arguments; fault: what the C library did.
LoadCall(op, ret, text, filename, fault) ==
    [op |-> op, ret |-> ret, text |-> text, filename |-> filename,
     fault |-> fault]

NoLoad ==
    [ctx |-> LoadContext(0, NoText, ""),
     last |-> LoadCall("none", ESP_OK, NoText, "", "none")]

\* A thread and the call it is in. pc: where it is; ret: what the call
\* returned or will return; path: the return path it took; gives: how often
\* the call released s_app_mutex; overlaps: the call is a start_app that
\* began while the start_app of another thread for the same app, which was
\* Stopped, had not returned.
Threads == 1..MaxThreads

ThreadCall(pc, op, app_id, ret, path, gives, overlaps) ==
    [pc |-> pc, op |-> op, app_id |-> app_id, ret |-> ret, path |-> path,
     gives |-> gives, overlaps |-> overlaps]

NoCall == ThreadCall("idle", "none", EmptyId, ESP_OK, "none", 0, FALSE)
NoCalls == [t \in Threads |-> NoCall]

\* left: the calls that the callers of the two pools have left; op and ret:
\* the most recent call and what it returned.
PoolCalls(left, op, ret) == [left |-> left, op |-> op, ret |-> ret]

NoPoolCalls == PoolCalls(MaxPoolCalls, "none", ESP_OK)

\* bits: the bits set in s_wifi_event_group; pc: "waiting" while
\* wifi_manager_connect waits in xEventGroupWaitBits; ret: what the last
\* call returned; got_ip and retries: whether a got-IP event was handled,
\* and how many reconnection retries were made (counted up to
\* WIFI_MAX_RETRY), since the last call began and before it returned.
WIFI_MAX_RETRY == 5

WifiState(bits, retry_num, status, pc, ret, got_ip, retries) ==
    [bits |-> bits, s_retry_num |-> retry_num, s_wifi_status |-> status,
     pc |-> pc, ret |-> ret, got_ip |-> got_ip, retries |-> retries]

WifiReady ==
    WifiState({}, 0, "WIFI_STATUS_DISCONNECTED", "idle", "none", FALSE, 0)

\* Two tasks of equal priority.
TwoThreads == {1, 2}

\* A thread in app_permissions_grant or app_permissions_revoke. pc: before
\* the load ("idle"), between the load and the save ("loaded"), returned
\* ("done"); current_permissions: the local variable; lret: what the load
\* returned; stale: another thread saved a bitset for the same app id
\* between the load and the save of this call.
Update(pc, op, app_id, permission, current_permissions, lret, ret, stale) ==
    [pc |-> pc, op |-> op, app_id |-> app_id, permission |-> permission,
     current_permissions |-> current_permissions, lret |-> lret, ret |-> ret,
     stale |-> stale]

NoUpdate == Update("idle", "none", EmptyId, {}, {}, ESP_OK, ESP_OK, FALSE)
NoUpdates == [t \in TwoThreads |-> NoUpdate]

Tasks == 1..MaxTasks
NoTask == 0

\* s_initialized: the flag of mjs_engine.c; s_engine_mutex: NULL when there
\* is none, NoTask when it is free, EngineTask when the task holds it; pc:
\* where the task is ("idle" outside of mjs_engine_deinit, "loop" in its
\* loop, "destroy" in the mjs_engine_destroy_context it called, at the
\* take); i: the slot the loop is at.
EngineTask == NoTask + 1

EngineState(initialized, mutex, pc, i) ==
    [s_initialized |-> initialized, s_engine_mutex |-> mutex, pc |-> pc,
     i |-> i]

EngineReady == EngineState(TRUE, NoTask, "idle", 0)
NUL == "\\0"

\* Two app ids of the same length, as the characters of their strings.
TaskAppIds == {<< "a", "a", NUL >>, << "b", "b", NUL >>}
NoAppId == << NUL, NUL, NUL >>

\* The operations that take s_app_mutex, and get_current_app.
LockedOps == {"install", "start_app", "stop_app", "list_apps", "check_permission"}
\* The operations that are given an app id.
IdOps == {"start_app", "stop_app", "check_permission"}

Idle == [op |-> "none", pc |-> "idle", app_id |-> NoAppId, k |-> 0, seen |-> <<>>]
NoAccess == [task |-> NoTask, op |-> "none", part |-> "none", locked |-> FALSE]

\* The string in a buffer: its characters before the first NUL.
RECURSIVE CString(_)
CString(buf) ==
    IF buf = <<>> \/ Head(buf) = NUL THEN <<>>
    ELSE << Head(buf) >> \o CString(Tail(buf))

s_num_installed_apps == Len(s_installed_apps)

SandboxSlots == 0..(MAX_SANDBOXES - 1)
ContextSlots == 0..(MAX_CONTEXTS - 1)

\* memset(sandbox, 0, sizeof(sandbox_t))
ZeroSandbox ==
    [active |-> FALSE, app_id |-> EmptyId, js_context |-> NULL,
     memory_limit |-> 0, time_limit |-> 0, start_time |-> Time(0, ToU32(0))]

\* s_contexts[i] == NULL
NoContext ==
    [live |-> FALSE, code |-> FALSE, is_running |-> FALSE,
     memory_limit |-> 0, execution_time_limit_ms |-> 0, globals |-> <<>>]

Call(op, id, ret, pkg) ==
    [op |-> op, id |-> id, ret |-> ret, pkg |-> pkg, collaborator |-> 0]

\* csv: the string given to parse; bits: the bitset parse returned or
\* to_string was given; text: the string to_string returned; back: what
\* parse made of text.
FCall(op, csv, bits, text, back) ==
    [op |-> op, csv |-> csv, bits |-> bits, text |-> text, back |-> back]

NoFCall == FCall("none", <<>>, {}, <<>>, {})

\* fault: what went wrong while the call read NVS; out: *permissions.
PCall(op, id, mask, fault, ret, out) ==
    [op |-> op, id |-> id, mask |-> mask, fault |-> fault, ret |-> ret,
     out |-> out]

Init ==
    /\ s_installed_apps = <<>>
    /\ s_current_app_id = EmptyId
    /\ s_initialized = TRUE
    /\ s_sandboxes = [i \in SandboxSlots |-> ZeroSandbox]
    /\ s_sandbox_count = 0
    /\ s_contexts = [i \in ContextSlots |-> NoContext]
    /\ s_context_count = 0
    /\ fs_dirs = {}
    /\ call = Call("init", EmptyId, ESP_OK, NoPackage)
    /\ nvs = <<>>
    /\ nvs_namespace = FALSE
    /\ pcall = PCall("none", EmptyId, {}, "none", ESP_OK, {})
    /\ fcall = NoFCall
    /\ engine = NoEvaluation
    /\ gtable = NoGlobals
    /\ radio = NoRadio
    /\ clock = Boot
    /\ wifi = WifiReady
    /\ pool_calls = NoPoolCalls
    /\ s_engine = EngineReady
    /\ updater = NoUpdates
    /\ thread = NoCalls
    /\ loader = NoLoad
    /\ s_app_mutex = NoTask
    /\ task = [t \in Tasks |-> Idle]
    /\ current_app_bytes = NoAppId
    /\ access = NoAccess

\* The least member of a non-empty set of numbers.
Least(S) == CHOOSE x \in S : \A y \in S : x <= y

\* The index of the first record with this id, 0 when there is none.
FindApp(apps, app_id) ==
    LET hits == {i \in 1..Len(apps) : apps[i].id = app_id}
    IN  IF hits = {} THEN 0 ELSE Least(hits)

RunningApps(apps) == {i \in 1..Len(apps) : apps[i].state = APP_STATE_RUNNING}

\* ------------------------------------------------------------------------
\* Scripting engine: contexts
\* ------------------------------------------------------------------------
\* The result is the slot of the new context, or NULL.
mjs_engine_create_context(contexts, count, memory_limit, fault) ==
    LET free == {i \in ContextSlots : ~contexts[i].live}
    IN  IF count >= MAX_CONTEXTS \/ free = {} \/ fault = "calloc"
        THEN [ctx |-> NULL, contexts |-> contexts, count |-> count]
        ELSE LET slot == Least(free)
             IN  [ctx |-> slot,
                  contexts |-> [contexts EXCEPT ![slot] =
                      [live |-> TRUE, code |-> FALSE, is_running |-> FALSE,
                       memory_limit |-> IF memory_limit > 0
                                        THEN memory_limit ELSE 65536,
                       execution_time_limit_ms |-> 5000,
                       globals |-> <<>>]],
                  count |-> count + 1]

\* destroy_context that forgets s_context_count--.
mjs_engine_destroy_context_leak(contexts, count, ctx) ==
    IF ctx = NULL THEN [contexts |-> contexts, count |-> count]
    ELSE [contexts |-> [contexts EXCEPT ![ctx] = NoContext], count |-> count]

mjs_engine_destroy_context(contexts, count, ctx) ==
    IF ctx = NULL THEN [contexts |-> contexts, count |-> count]
    ELSE IF contexts[ctx].live
         THEN [contexts |-> [contexts EXCEPT ![ctx] = NoContext],
               count |-> count - 1]
         ELSE [contexts |-> contexts, count |-> count]

\* fopen, the size check, malloc and fread can each fail.
mjs_engine_load_file(contexts, ctx, fault) ==
    IF fault = "fopen"
    THEN [ret |-> ESP_ERR_NOT_FOUND, contexts |-> contexts]
    ELSE IF fault = "size"
    THEN [ret |-> ESP_ERR_INVALID_SIZE, contexts |-> contexts]
    ELSE IF fault = "malloc"
    THEN [ret |-> ESP_ERR_NO_MEM, contexts |-> contexts]
    ELSE [ret |-> ESP_OK,
          contexts |-> [contexts EXCEPT ![ctx].code = TRUE]]

\* mjs_is_error is false for every value, so the result is JS_EXEC_ERROR
\* only without loaded code; slow says exec_time > execution_time_limit_ms.
mjs_engine_execute(contexts, ctx, slow) ==
    IF ctx = NULL \/ ~contexts[ctx].code
    THEN [result |-> JS_EXEC_ERROR, contexts |-> contexts]
    ELSE [result |-> IF slow THEN JS_EXEC_TIMEOUT ELSE JS_EXEC_OK,
          contexts |-> [contexts EXCEPT ![ctx].is_running = FALSE]]

mjs_engine_stop(contexts, ctx) ==
    [contexts EXCEPT ![ctx].is_running = FALSE]

\* ------------------------------------------------------------------------
\* Sandbox Manager
\* ------------------------------------------------------------------------
\* find_sandbox without the strcmp: the first active slot.
find_sandbox_any(sandboxes, app_id) ==
    LET hits == {i \in SandboxSlots : sandboxes[i].active}
    IN  IF hits = {} THEN NULL ELSE Least(hits)

\* The first active slot that carries app_id, NULL when there is none.
find_sandbox(sandboxes, app_id) ==
    LET hits == {i \in SandboxSlots :
                    sandboxes[i].active /\ sandboxes[i].app_id = app_id}
    IN  IF hits = {} THEN NULL ELSE Least(hits)

\* An app_sandbox_create that, when no slot is free, takes the first slot
\* with its context.
NoSlot_evicts(sandboxes, sbcount, contexts, ctxcount, app_id) ==
    [ret |-> ESP_OK, ctx |-> sandboxes[0].js_context,
     sandboxes |-> [sandboxes EXCEPT ![0].app_id = app_id],
     sbcount |-> sbcount, contexts |-> contexts, ctxcount |-> ctxcount]

\* if (slot == -1) return ESP_ERR_NO_MEM;
NoSlot(sandboxes, sbcount, contexts, ctxcount, app_id) ==
    [ret |-> ESP_ERR_NO_MEM, ctx |-> NULL, sandboxes |-> sandboxes,
     sbcount |-> sbcount, contexts |-> contexts, ctxcount |-> ctxcount]

app_sandbox_create(sandboxes, sbcount, contexts, ctxcount, app_id, fault) ==
    LET free == {i \in SandboxSlots : ~sandboxes[i].active}
        made == mjs_engine_create_context(contexts, ctxcount, 65536, fault)
        same == [ctx |-> NULL, sandboxes |-> sandboxes, sbcount |-> sbcount,
                 contexts |-> contexts, ctxcount |-> ctxcount]
    IN  IF free = {}
        THEN NoSlot(sandboxes, sbcount, contexts, ctxcount, app_id)
        ELSE IF made.ctx = NULL THEN same @@ [ret |-> ESP_ERR_NO_MEM]
        ELSE LET slot == Least(free)
             IN  [ret |-> ESP_OK,
                  ctx |-> made.ctx,
                  sandboxes |-> [sandboxes EXCEPT ![slot] =
                      [active |-> TRUE, app_id |-> app_id,
                       js_context |-> made.ctx,
                       memory_limit |-> 65536, time_limit |-> 5000,
                       start_time |-> clock.now]],
                  sbcount |-> sbcount + 1,
                  contexts |-> [made.contexts EXCEPT ![made.ctx].globals =
                                   RegisteredGlobals],
                  ctxcount |-> made.count]

\* app_sandbox_destroy that forgets the memset of the slot.
app_sandbox_destroy_keeps_slot(sandboxes, sbcount, contexts, ctxcount, app_id) ==
    LET slot == find_sandbox(sandboxes, app_id)
    IN  IF slot = NULL
        THEN [ret |-> ESP_ERR_NOT_FOUND, sandboxes |-> sandboxes,
              sbcount |-> sbcount, contexts |-> contexts,
              ctxcount |-> ctxcount]
        ELSE LET gone == mjs_engine_destroy_context(
                             contexts, ctxcount, sandboxes[slot].js_context)
             IN  [ret |-> ESP_OK, sandboxes |-> sandboxes,
                  sbcount |-> sbcount - 1,
                  contexts |-> gone.contexts, ctxcount |-> gone.count]

app_sandbox_destroy(sandboxes, sbcount, contexts, ctxcount, app_id) ==
    LET slot == find_sandbox(sandboxes, app_id)
    IN  IF slot = NULL
        THEN [ret |-> ESP_ERR_NOT_FOUND, sandboxes |-> sandboxes,
              sbcount |-> sbcount, contexts |-> contexts,
              ctxcount |-> ctxcount]
        ELSE LET gone == mjs_engine_destroy_context(
                             contexts, ctxcount, sandboxes[slot].js_context)
             IN  [ret |-> ESP_OK,
                  sandboxes |-> [sandboxes EXCEPT ![slot] = ZeroSandbox],
                  sbcount |-> sbcount - 1,
                  contexts |-> gone.contexts,
                  ctxcount |-> gone.count]

\* ------------------------------------------------------------------------
\* App Installer
\* ------------------------------------------------------------------------
\* mkdir that succeeds on a directory that exists.
mkdir_existing_ok(dirs, app_id, fault) == fault # "mkdir"

\* mkdir(extract_path, 0755) == 0: it fails when the directory exists
\* already, or for a fault of the file system.
mkdir(dirs, app_id, fault) == app_id \notin dirs /\ fault # "mkdir"

\* A directory that was made stays when a later step fails.  manifest is the
\* manifest.json found afterwards, <<>> when none was written.
app_installer_extract_package(pkg, app_id, dirs, fault) ==
    IF ~mkdir(dirs, app_id, fault)
    THEN [ret |-> ESP_FAIL, dirs |-> dirs, manifest |-> <<>>]
    ELSE IF ~pkg.exists
    THEN [ret |-> ESP_ERR_NOT_FOUND, dirs |-> dirs \cup {app_id},
          manifest |-> <<>>]
    ELSE IF fault = "fopen_dst"
    THEN [ret |-> ESP_FAIL, dirs |-> dirs \cup {app_id}, manifest |-> <<>>]
    ELSE [ret |-> ESP_OK, dirs |-> dirs \cup {app_id},
          manifest |-> IF fault = "fopen_manifest" THEN <<>>
                       ELSE DefaultManifestFile]

\* ------------------------------------------------------------------------
\* App Manager
\* ------------------------------------------------------------------------
app_manager_check_permission(apps, app_id, permission) ==
    LET i == FindApp(apps, app_id)
    IN  i # 0 /\ (apps[i].permissions \cap permission) # {}

\* The record that install fills in from the manifest it loaded.
NewAppInfo(app_id, manifest) ==
    [id |-> app_id,
     name |-> manifest.name,
     version |-> manifest.version,
     author |-> manifest.author,
     entry_point |-> manifest.entry_point,
     state |-> APP_STATE_STOPPED,
     js_context |-> NULL,
     is_system_app |-> FALSE,
     permissions |-> app_permissions_parse_string(manifest.permissions)]

\* The capacity check with > for >=.
RegistryFull_off_by_one(apps) == Len(apps) > MAX_INSTALLED_APPS

\* s_num_installed_apps >= MAX_INSTALLED_APPS
RegistryFull(apps) == Len(apps) >= MAX_INSTALLED_APPS

\* install of package p, with r the value esp_random() returns.
\* An install that fills the next record before the extraction and the
\* manifest are checked.
Registered_before_checks(apps, r, ex) ==
    Append(apps, NewAppInfo(r, mjs_engine_load_manifest(
        IF ex.manifest = <<>> THEN DefaultManifestFile ELSE ex.manifest)))

\* The registry after the extraction ex for the id r: the record is filled
\* and counted only when the extraction and the load of the manifest
\* succeeded.
Registered(apps, r, ex) ==
    IF ex.ret # ESP_OK \/ ex.manifest = <<>> THEN apps
    ELSE Append(apps, NewAppInfo(r, mjs_engine_load_manifest(ex.manifest)))

app_manager_install(p, r, fault) ==
    /\ s_initialized
    /\ UNCHANGED outside_app_manager
    /\ UNCHANGED << s_current_app_id, s_initialized, s_sandboxes,
                    s_sandbox_count, s_contexts, s_context_count >>
    /\ IF RegistryFull(s_installed_apps)
       THEN /\ call' = Call("install", EmptyId, ESP_ERR_NO_MEM, p)
            /\ UNCHANGED << s_installed_apps, fs_dirs >>
       ELSE \E ex \in {app_installer_extract_package(
                            Packages[p], r, fs_dirs, fault)} :
                /\ fs_dirs' = ex.dirs
                /\ s_installed_apps' = Registered(s_installed_apps, r, ex)
                /\ call' = Call("install", r,
                               IF ex.ret # ESP_OK THEN ex.ret
                               ELSE IF ex.manifest = <<>>
                               THEN ESP_ERR_NOT_FOUND ELSE ESP_OK, p)

\* start_app without the early return for a Running app.
AlreadyRunning_never(app) == FALSE

\* app->state == APP_STATE_RUNNING
AlreadyRunning(app) == app.state = APP_STATE_RUNNING

\* The registry, sandboxes and contexts after start_app(app_id), with its
\* result.  slow: the evaluation took longer than the time limit.
StartApp(apps, cur, sandboxes, sbcount, contexts, ctxcount, app_id, fault, slow) ==
    LET i == FindApp(apps, app_id)
        same == [apps |-> apps, cur |-> cur, sandboxes |-> sandboxes,
                 sbcount |-> sbcount, contexts |-> contexts,
                 ctxcount |-> ctxcount]
    IN  IF i = 0 THEN same @@ [ret |-> ESP_ERR_NOT_FOUND]
        ELSE IF AlreadyRunning(apps[i])
        THEN same @@ [ret |-> ESP_OK]
        ELSE
        LET sb == app_sandbox_create(sandboxes, sbcount, contexts, ctxcount,
                                     app_id, fault)
        IN  IF sb.ret # ESP_OK THEN same @@ [ret |-> sb.ret]
            ELSE
            LET ld == mjs_engine_load_file(sb.contexts, sb.ctx, fault)
                ex == mjs_engine_execute(ld.contexts, sb.ctx, slow)
                \* the teardown of both failure paths
                un == app_sandbox_destroy(sb.sandboxes, sb.sbcount,
                          IF ld.ret = ESP_OK THEN ex.contexts ELSE ld.contexts,
                          sb.ctxcount, app_id)
                undone == [apps |-> [apps EXCEPT ![i].js_context = NULL],
                           cur |-> cur, sandboxes |-> un.sandboxes,
                           sbcount |-> un.sbcount, contexts |-> un.contexts,
                           ctxcount |-> un.ctxcount]
            IN  IF ld.ret # ESP_OK THEN undone @@ [ret |-> ld.ret]
                ELSE IF ex.result # JS_EXEC_OK
                THEN undone @@ [ret |-> ESP_FAIL]
                ELSE [apps |-> [apps EXCEPT
                                   ![i].js_context = sb.ctx,
                                   ![i].state = APP_STATE_RUNNING],
                      cur |-> app_id,
                      sandboxes |-> sb.sandboxes, sbcount |-> sb.sbcount,
                      contexts |-> ex.contexts, ctxcount |-> sb.ctxcount,
                      ret |-> ESP_OK]

app_manager_start_app(app_id, fault, slow) ==
    /\ s_initialized
    /\ UNCHANGED outside_app_manager
    /\ \E r \in {StartApp(s_installed_apps, s_current_app_id, s_sandboxes,
                         s_sandbox_count, s_contexts, s_context_count,
                         app_id, fault, slow)} :
           /\ s_installed_apps' = r.apps
           /\ s_current_app_id' = r.cur
           /\ s_sandboxes' = r.sandboxes
           /\ s_sandbox_count' = r.sbcount
           /\ s_contexts' = r.contexts
           /\ s_context_count' = r.ctxcount
           /\ call' = Call("start_app", app_id, r.ret, NoPackage)
    /\ UNCHANGED << s_initialized, fs_dirs >>

\* stop_app that never clears s_current_app_id.
ClearCurrent_never(cur, app_id) == cur

\* stop_app that clears s_current_app_id whatever it holds.
ClearCurrent_always(cur, app_id) == EmptyId

\* if (strcmp(s_current_app_id, app_id) == 0) s_current_app_id[0] = '\0';
ClearCurrent(cur, app_id) == IF cur = app_id THEN EmptyId ELSE cur

\* The registry, sandboxes and contexts after stop_app(app_id), with its
\* result.
StopApp(apps, cur, sandboxes, sbcount, contexts, ctxcount, app_id) ==
    LET i == FindApp(apps, app_id)
        same == [apps |-> apps, cur |-> cur, sandboxes |-> sandboxes,
                 sbcount |-> sbcount, contexts |-> contexts,
                 ctxcount |-> ctxcount]
    IN  IF i = 0 THEN same @@ [ret |-> ESP_ERR_NOT_FOUND]
        ELSE IF apps[i].state # APP_STATE_RUNNING
        THEN same @@ [ret |-> ESP_OK]
        ELSE
        LET has == apps[i].js_context # NULL
            un == app_sandbox_destroy(sandboxes, sbcount,
                      mjs_engine_stop(contexts, apps[i].js_context),
                      ctxcount, app_id)
        IN  [apps |-> [apps EXCEPT ![i].js_context = NULL,
                                   ![i].state = APP_STATE_STOPPED],
             cur |-> ClearCurrent(cur, app_id),
             sandboxes |-> IF has THEN un.sandboxes ELSE sandboxes,
             sbcount |-> IF has THEN un.sbcount ELSE sbcount,
             contexts |-> IF has THEN un.contexts ELSE contexts,
             ctxcount |-> IF has THEN un.ctxcount ELSE ctxcount,
             ret |-> ESP_OK]

app_manager_stop_app(app_id) ==
    /\ s_initialized
    /\ UNCHANGED outside_app_manager
    /\ \E r \in {StopApp(s_installed_apps, s_current_app_id, s_sandboxes,
                        s_sandbox_count, s_contexts, s_context_count,
                        app_id)} :
           /\ s_installed_apps' = r.apps
           /\ s_current_app_id' = r.cur
           /\ s_sandboxes' = r.sandboxes
           /\ s_sandbox_count' = r.sbcount
           /\ s_contexts' = r.contexts
           /\ s_context_count' = r.ctxcount
           /\ call' = Call("stop_app", app_id, r.ret, NoPackage)
    /\ UNCHANGED << s_initialized, fs_dirs >>

\* A deinit without the for loop.
StopAllFrom_none(st, i) == st

\* The for loop of deinit from record i on: stop_app of each Running record.
RECURSIVE StopAllFrom(_, _)
StopAllFrom(st, i) ==
    IF i > Len(st.apps) THEN st
    ELSE IF st.apps[i].state = APP_STATE_RUNNING
         THEN StopAllFrom(StopApp(st.apps, st.cur, st.sandboxes, st.sbcount,
                                  st.contexts, st.ctxcount, st.apps[i].id),
                          i + 1)
         ELSE StopAllFrom(st, i + 1)

app_manager_deinit ==
    /\ s_initialized
    /\ UNCHANGED outside_app_manager
    /\ \E r \in {StopAllFrom(
                    [apps |-> s_installed_apps, cur |-> s_current_app_id,
                     sandboxes |-> s_sandboxes, sbcount |-> s_sandbox_count,
                     contexts |-> s_contexts, ctxcount |-> s_context_count,
                     ret |-> ESP_OK], 1)} :
           /\ s_installed_apps' = r.apps
           /\ s_current_app_id' = r.cur
           /\ s_sandboxes' = r.sandboxes
           /\ s_sandbox_count' = r.sbcount
           /\ s_contexts' = r.contexts
           /\ s_context_count' = r.ctxcount
    \* vSemaphoreDelete(s_app_mutex) after the loop; the mutex exists exactly
    \* while s_initialized.  stopped: the ids that were Running at the call.
    /\ s_initialized' = FALSE
    /\ call' = Call("deinit", EmptyId, ESP_OK, NoPackage)
                @@ [stopped |-> {s_installed_apps[i].id :
                                    i \in RunningApps(s_installed_apps)}]
    /\ UNCHANGED fs_dirs

\* init after a deinit: the registry is cleared, s_current_app_id is not
\* touched.
app_manager_init ==
    /\ UNCHANGED outside_app_manager
    /\ IF s_initialized
       THEN /\ call' = Call("init", EmptyId, ESP_ERR_INVALID_STATE, NoPackage)
            /\ UNCHANGED << s_installed_apps, s_initialized >>
       ELSE /\ s_installed_apps' = <<>>
            /\ s_initialized' = TRUE
            /\ call' = Call("init", EmptyId, ESP_OK, NoPackage)
    /\ UNCHANGED << s_current_app_id, s_sandboxes, s_sandbox_count,
                    s_contexts, s_context_count, fs_dirs >>

\* check_permission as a call: it changes no state.
app_manager_check_permission_call(app_id, permission) ==
    /\ s_initialized
    /\ pcall' = PCall("check_permission", app_id, permission, "none",
                      IF app_manager_check_permission(s_installed_apps,
                                                      app_id, permission)
                      THEN "true" ELSE "false", {})
    /\ UNCHANGED << nvs, nvs_namespace >>
    /\ UNCHANGED outside_store

\* ------------------------------------------------------------------------
\* Native API Bridge
\* ------------------------------------------------------------------------
\* The native functions are called through the binding that
\* js_api_register_all puts into the context of a sandbox; the app on whose
\* behalf a call is made is the app of that sandbox.

\* rf.transmit: cc1101_transmit is called once, whatever the permissions of
\* the app are; radio_ok is its result.
js_rf_transmit(slot, radio_ok) ==
    /\ s_sandboxes[slot].active
    /\ UNCHANGED outside_app_manager
    /\ IsBoundNative(s_contexts[s_sandboxes[slot].js_context].globals,
                     "rf.transmit")
    /\ call' = [op |-> "rf.transmit",
                id |-> s_sandboxes[slot].app_id,
                ret |-> IF radio_ok THEN "undefined" ELSE "error",
                pkg |-> NoPackage,
                collaborator |-> 1]
    /\ UNCHANGED << s_installed_apps, s_current_app_id, s_initialized,
                    s_sandboxes, s_sandbox_count, s_contexts,
                    s_context_count, fs_dirs >>

\* storage.writeText: fopen(filename, "w") is called once, whatever the
\* permissions of the app are; file_ok says that it and fwrite succeeded.
js_storage_write_text(slot, file_ok) ==
    /\ s_sandboxes[slot].active
    /\ UNCHANGED outside_app_manager
    /\ IsBoundNative(s_contexts[s_sandboxes[slot].js_context].globals,
                     "storage.writeText")
    /\ call' = [op |-> "storage.writeText",
                id |-> s_sandboxes[slot].app_id,
                ret |-> IF file_ok THEN "undefined" ELSE "error",
                pkg |-> NoPackage,
                collaborator |-> 1]
    /\ UNCHANGED << s_installed_apps, s_current_app_id, s_initialized,
                    s_sandboxes, s_sandbox_count, s_contexts,
                    s_context_count, fs_dirs >>

\* ------------------------------------------------------------------------
\* Permission Store
\* ------------------------------------------------------------------------
\* Faults of NVS: nvs_open fails, nvs_get_u32 fails with an error other than
\* ESP_ERR_NVS_NOT_FOUND, nvs_set_u32 fails, nvs_commit fails.  The entry
\* that nvs_set_u32 made is in flash when nvs_commit fails ("commit"); a
\* failed commit that loses the entry leaves what "set" leaves.
LoadFaults == {"none", "open", "get"}
SaveFaults == {"none", "open", "set", "commit"}

\* nvs_open(NVS_NAMESPACE, NVS_READONLY, ..) == ESP_OK: a namespace that
\* does not exist cannot be opened for reading.
nvs_open_readonly(namespace, fault) == namespace /\ fault # "open"

\* One entry for every app: the value is written under every key.
nvs_set_u32_shared(store, key, value) ==
    [k \in DOMAIN store \cup {key} |-> value]

\* nvs_set_u32(handle, key, value)
nvs_set_u32(store, key, value) ==
    [k \in DOMAIN store \cup {key} |-> IF k = key THEN value ELSE store[k]]

\* Absence that grants every bit.
NoPermissions_all == PermBits

\* *permissions = 0
NoPermissions == {}

\* permissions is *permissions after the call; nvs_get_u32 leaves it alone
\* when it fails, and every caller passes a variable that holds 0.
PermLoad(store, namespace, app_id, fault) ==
    IF ~nvs_open_readonly(namespace, fault)
    THEN [ret |-> ESP_OK, permissions |-> NoPermissions]
    ELSE IF fault = "get"
    THEN [ret |-> ESP_FAIL, permissions |-> {}]
    ELSE IF app_id \notin DOMAIN store
    THEN [ret |-> ESP_OK, permissions |-> NoPermissions]
    ELSE [ret |-> ESP_OK, permissions |-> store[app_id]]

\* nvs_open(.., NVS_READWRITE, ..) creates the namespace.
PermSave(store, namespace, app_id, permissions, fault) ==
    IF fault = "open"
    THEN [ret |-> ESP_FAIL, store |-> store, namespace |-> namespace]
    ELSE IF fault = "set"
    THEN [ret |-> ESP_FAIL, store |-> store, namespace |-> TRUE]
    ELSE IF fault = "commit"
    THEN [ret |-> ESP_FAIL,
          store |-> nvs_set_u32(store, app_id, permissions),
          namespace |-> TRUE]
    ELSE [ret |-> ESP_OK, store |-> nvs_set_u32(store, app_id, permissions),
          namespace |-> TRUE]

\* A check that wants every required bit.
HasAny_all(app_permissions, required_permission) ==
    required_permission \subseteq app_permissions

\* (app_permissions & required_permission) != 0
HasAny(app_permissions, required_permission) ==
    (app_permissions \cap required_permission) # {}

PermCheck(store, namespace, app_id, required_permission, fault) ==
    LET l == PermLoad(store, namespace, app_id, fault)
    IN  IF l.ret # ESP_OK THEN FALSE
        ELSE HasAny(l.permissions, required_permission)

\* current_permissions |= permission
Granted(current_permissions, permission) ==
    current_permissions \cup permission

\* A revoke that clears nothing.
Revoked_nothing(current_permissions, permission) == current_permissions

\* current_permissions &= ~permission
Revoked(current_permissions, permission) ==
    current_permissions \ permission

\* A failed load makes grant start from no permissions.
PermGrant(store, namespace, app_id, permission, lfault, sfault) ==
    LET l == PermLoad(store, namespace, app_id, lfault)
        current_permissions == IF l.ret # ESP_OK THEN {} ELSE l.permissions
    IN  PermSave(store, namespace, app_id,
                 Granted(current_permissions, permission), sfault)

\* A failed load makes revoke return its error.
PermRevoke(store, namespace, app_id, permission, lfault, sfault) ==
    LET l == PermLoad(store, namespace, app_id, lfault)
    IN  IF l.ret # ESP_OK
        THEN [ret |-> l.ret, store |-> store, namespace |-> namespace]
        ELSE PermSave(store, namespace, app_id,
                      Revoked(l.permissions, permission), sfault)

app_permissions_load(app_id, fault) ==
    /\ \E l \in {PermLoad(nvs, nvs_namespace, app_id, fault)} :
           pcall' = PCall("load", app_id, {}, fault, l.ret, l.permissions)
    /\ UNCHANGED << nvs, nvs_namespace >>
    /\ UNCHANGED outside_store

app_permissions_save(app_id, permissions, fault) ==
    /\ \E r \in {PermSave(nvs, nvs_namespace, app_id, permissions, fault)} :
           /\ nvs' = r.store
           /\ nvs_namespace' = r.namespace
           /\ pcall' = PCall("save", app_id, permissions, "none", r.ret, {})
    /\ UNCHANGED outside_store

app_permissions_check(app_id, required_permission, fault) ==
    /\ pcall' = PCall("check", app_id, required_permission, fault,
                      IF PermCheck(nvs, nvs_namespace, app_id,
                                   required_permission, fault)
                      THEN "true" ELSE "false", {})
    /\ UNCHANGED << nvs, nvs_namespace >>
    /\ UNCHANGED outside_store

app_permissions_grant(app_id, permission, lfault, sfault) ==
    /\ \E r \in {PermGrant(nvs, nvs_namespace, app_id, permission, lfault,
                           sfault)} :
           /\ nvs' = r.store
           /\ nvs_namespace' = r.namespace
           /\ pcall' = PCall("grant", app_id, permission, lfault, r.ret, {})
    /\ UNCHANGED outside_store

app_permissions_revoke(app_id, permission, lfault, sfault) ==
    /\ \E r \in {PermRevoke(nvs, nvs_namespace, app_id, permission, lfault,
                            sfault)} :
           /\ nvs' = r.store
           /\ nvs_namespace' = r.namespace
           /\ pcall' = PCall("revoke", app_id, permission, lfault, r.ret, {})
    /\ UNCHANGED outside_store

\* ------------------------------------------------------------------------
\* Permission Store: grant and revoke as threads execute them
\* ------------------------------------------------------------------------
\* The app ids and the flags of the callers, and the faults of NVS under
\* them.
UpdateIds == {0, 1}
UpdateFlags == {{0}, {1}}
UpdateLoadFaults == {"none", "get"}
UpdateSaveFaults == {"none", "set"}

\* The load of grant and of revoke. A failed load makes grant go on with
\* no permissions and makes revoke return.
update_load(t, op, app_id, permission, fault) ==
    /\ updater[t].pc \in {"idle", "done"}
    /\ \E l \in {PermLoad(nvs, nvs_namespace, app_id, fault)} :
          updater' = [updater EXCEPT ![t] =
             IF l.ret # ESP_OK /\ op = "revoke"
             THEN Update("done", op, app_id, permission, {}, l.ret, l.ret,
                         FALSE)
             ELSE Update("loaded", op, app_id, permission,
                         IF l.ret # ESP_OK THEN {} ELSE l.permissions,
                         l.ret, "pending", FALSE)]
    /\ UNCHANGED << nvs, nvs_namespace >>
    /\ UNCHANGED outside_updaters

\* The bitset that the call saves.
Updated(u) ==
    IF u.op = "grant" THEN Granted(u.current_permissions, u.permission)
    ELSE Revoked(u.current_permissions, u.permission)

\* The save of grant and of revoke, and the return.
update_save(t, fault) ==
    /\ updater[t].pc = "loaded"
    /\ \E r \in {PermSave(nvs, nvs_namespace, updater[t].app_id,
                           Updated(updater[t]), fault)} :
          /\ nvs' = r.store
          /\ nvs_namespace' = r.namespace
          /\ updater' = [u \in TwoThreads |->
                IF u = t
                THEN [updater[t] EXCEPT !.pc = "done", !.ret = r.ret,
                                        !.current_permissions = {}]
                ELSE IF /\ updater[u].pc = "loaded"
                        /\ updater[u].app_id = updater[t].app_id
                        /\ r.ret = ESP_OK
                     THEN [updater[u] EXCEPT !.stale = TRUE]
                     ELSE updater[u]]
    /\ UNCHANGED outside_updaters

\* ------------------------------------------------------------------------
\* Scripting engine: init, deinit and the engine mutex
\* ------------------------------------------------------------------------
\* xSemaphoreTake(s_engine_mutex, portMAX_DELAY) returns when no task holds
\* the mutex; it was made by xSemaphoreCreateMutex and is not recursive.
EngineMutexAvailable(mutex) == mutex = NoTask

engine_init ==
    /\ s_engine.pc = "idle"
    /\ ~s_engine.s_initialized
    /\ s_engine' = EngineState(TRUE, NoTask, "idle", 0)
    /\ UNCHANGED << s_contexts, s_context_count >>
    /\ UNCHANGED outside_engine_mutex

\* mjs_engine_create_context called by the task: the take, the body and the
\* give.
engine_create_context(memory_limit, fault) ==
    /\ s_engine.pc = "idle"
    /\ s_engine.s_initialized
    /\ EngineMutexAvailable(s_engine.s_engine_mutex)
    /\ \E made \in {mjs_engine_create_context(s_contexts, s_context_count,
                                               memory_limit, fault)} :
          /\ s_contexts' = made.contexts
          /\ s_context_count' = made.count
    /\ UNCHANGED s_engine
    /\ UNCHANGED outside_engine_mutex

\* mjs_engine_destroy_context from its take on, called by the task for a
\* live context or called by the loop of mjs_engine_deinit for s_contexts[i];
\* the loop goes on with s_contexts[i] = NULL and the next slot.
engine_destroy_context(ctx) ==
    /\ s_engine.s_initialized
    /\ \/ s_engine.pc = "idle" /\ s_contexts[ctx].live
       \/ s_engine.pc = "destroy" /\ ctx = s_engine.i
    /\ EngineMutexAvailable(s_engine.s_engine_mutex)
    /\ \E gone \in {mjs_engine_destroy_context(s_contexts, s_context_count,
                                                ctx)} :
          /\ s_contexts' = gone.contexts
          /\ s_context_count' = gone.count
    /\ s_engine' = IF s_engine.pc = "idle" THEN s_engine
                   ELSE [s_engine EXCEPT !.s_engine_mutex = NoTask,
                                        !.pc = "loop", !.i = s_engine.i + 1]
    /\ UNCHANGED outside_engine_mutex

\* mjs_engine_deinit up to its loop: the check of s_initialized and the take.
engine_deinit_take ==
    /\ s_engine.pc = "idle"
    /\ s_engine.s_initialized
    /\ EngineMutexAvailable(s_engine.s_engine_mutex)
    /\ s_engine' = [s_engine EXCEPT !.s_engine_mutex = EngineTask,
                                    !.pc = "loop", !.i = 0]
    /\ UNCHANGED << s_contexts, s_context_count >>
    /\ UNCHANGED outside_engine_mutex

\* One turn of the loop: an empty slot is passed, for a live one
\* mjs_engine_destroy_context is called, which passes its checks and goes
\* to its take.
engine_deinit_loop ==
    /\ s_engine.pc = "loop"
    /\ s_engine.i < MAX_CONTEXTS
    /\ s_engine' = IF s_contexts[s_engine.i].live
                   THEN [s_engine EXCEPT !.pc = "destroy"]
                   ELSE [s_engine EXCEPT !.i = s_engine.i + 1]
    /\ UNCHANGED << s_contexts, s_context_count >>
    /\ UNCHANGED outside_engine_mutex

\* After the loop: the count, the give, vSemaphoreDelete and the flag.
engine_deinit_finish ==
    /\ s_engine.pc = "loop"
    /\ s_engine.i = MAX_CONTEXTS
    /\ s_context_count' = 0
    /\ s_engine' = EngineState(FALSE, NULL, "idle", 0)
    /\ UNCHANGED s_contexts
    /\ UNCHANGED outside_engine_mutex

\* ------------------------------------------------------------------------
\* The sandbox pool and the context pool under any sequence of calls
\* ------------------------------------------------------------------------
PoolIds == {0}

\* The pools after a call, and the call.
PoolsAfter(r, op, ret) ==
    /\ pool_calls.left > 0
    /\ pool_calls' = PoolCalls(pool_calls.left - 1, op, ret)
    /\ s_sandboxes' = r.sandboxes
    /\ s_sandbox_count' = r.sbcount
    /\ s_contexts' = r.contexts
    /\ s_context_count' = r.ctxcount
    /\ UNCHANGED outside_pools

pool_sandbox_create(app_id, fault) ==
    \E r \in {app_sandbox_create(s_sandboxes, s_sandbox_count, s_contexts,
                                 s_context_count, app_id, fault)} :
       PoolsAfter(r, "sandbox_create", r.ret)

pool_sandbox_destroy(app_id) ==
    \E r \in {app_sandbox_destroy(s_sandboxes, s_sandbox_count, s_contexts,
                                  s_context_count, app_id)} :
       PoolsAfter(r, "sandbox_destroy", r.ret)

\* mjs_engine_create_context(0); ret: ESP_ERR_NO_MEM stands for the NULL
\* that it returns when no context was created.
pool_create_context(fault) ==
    \E made \in {mjs_engine_create_context(s_contexts, s_context_count,
                                           0, fault)} :
       PoolsAfter([sandboxes |-> s_sandboxes, sbcount |-> s_sandbox_count,
                   contexts |-> made.contexts, ctxcount |-> made.count],
                  "create_context",
                  IF made.ctx = NULL THEN ESP_ERR_NO_MEM ELSE ESP_OK)

\* ctx is a context that mjs_engine_create_context returned: one that is
\* live, or one that was destroyed, whose memory is free or is a context
\* that was created since.
pool_destroy_context(ctx) ==
    \E gone \in {mjs_engine_destroy_context(s_contexts, s_context_count,
                                            ctx)} :
       PoolsAfter([sandboxes |-> s_sandboxes, sbcount |-> s_sandbox_count,
                   contexts |-> gone.contexts, ctxcount |-> gone.count],
                  "destroy_context", ESP_OK)

\* ------------------------------------------------------------------------
\* Wi-Fi manager: wifi_event_handler and wifi_manager_connect
\* ------------------------------------------------------------------------
WifiEvents ==
    {"WIFI_EVENT_STA_START", "WIFI_EVENT_STA_DISCONNECTED",
     "IP_EVENT_STA_GOT_IP"}

\* wifi_manager_connect up to the wait: it sets the mode and the
\* configuration and starts the driver, and writes neither the event bits
\* nor the retry counter.
wifi_manager_connect ==
    /\ wifi.pc = "idle"
    /\ wifi' = [wifi EXCEPT !.pc = "waiting", !.ret = "none",
                            !.got_ip = FALSE, !.retries = 0]
    /\ UNCHANGED outside_wifi

\* The driver posts events from esp_wifi_start on, until esp_wifi_stop.
WifiStarted ==
    wifi.pc = "waiting" \/ wifi.s_wifi_status # "WIFI_STATUS_DISCONNECTED"

\* The event loop task runs wifi_event_handler for one event.
wifi_event_handler(event) ==
    /\ WifiStarted
    /\ wifi' =
         IF event = "WIFI_EVENT_STA_START"
         THEN [wifi EXCEPT !.s_wifi_status = "WIFI_STATUS_CONNECTING"]
         ELSE IF event = "WIFI_EVENT_STA_DISCONNECTED"
         THEN IF wifi.s_retry_num < WIFI_MAX_RETRY
              THEN [wifi EXCEPT
                      !.s_retry_num = wifi.s_retry_num + 1,
                      !.retries = IF wifi.pc = "waiting"
                                     /\ wifi.retries < WIFI_MAX_RETRY
                                  THEN wifi.retries + 1 ELSE wifi.retries]
              ELSE [wifi EXCEPT
                      !.bits = wifi.bits \cup {"WIFI_FAIL_BIT"},
                      !.s_wifi_status = "WIFI_STATUS_FAILED"]
         ELSE [wifi EXCEPT
                 !.s_retry_num = 0,
                 !.bits = wifi.bits \cup {"WIFI_CONNECTED_BIT"},
                 !.s_wifi_status = "WIFI_STATUS_CONNECTED",
                 !.got_ip = wifi.pc = "waiting" \/ wifi.got_ip]
    /\ UNCHANGED outside_wifi

\* xEventGroupWaitBits returns when one of the two bits is set, and clears
\* none; the connected bit is tested first.
wifi_manager_connect_return ==
    /\ wifi.pc = "waiting"
    /\ wifi.bits # {}
    /\ wifi' = [wifi EXCEPT !.pc = "idle",
                            !.ret = IF "WIFI_CONNECTED_BIT" \in wifi.bits
                                    THEN ESP_OK ELSE ESP_FAIL]
    /\ UNCHANGED outside_wifi

wifi_manager_disconnect ==
    /\ wifi.pc = "idle"
    /\ wifi' = [wifi EXCEPT !.s_wifi_status = "WIFI_STATUS_DISCONNECTED"]
    /\ UNCHANGED outside_wifi

\* ------------------------------------------------------------------------
\* Scripting engine: evaluation (inputs and operations)
\* ------------------------------------------------------------------------
\* Inputs.
ExprSymbols == {"1", "\"", "x", "+"}
Exprs == UNION {[1..n -> ExprSymbols] : n \in 0..MaxExprLen}
Scripts ==
    {<<"console.log", "(">> \o e \o <<")">> : e \in Exprs}
    \cup {<<"var ", "x", "=">> \o e \o <<";">> : e \in Exprs}
    \cup Exprs
ExecTimes ==
    {DEFAULT_EXEC_TIME_LIMIT - 1, DEFAULT_EXEC_TIME_LIMIT,
     DEFAULT_EXEC_TIME_LIMIT + 1}

mjs_engine_set_error_callback(callback) ==
    /\ engine' = [engine EXCEPT !.op = "set_error_callback",
                                !.s_error_callback = callback]
    /\ UNCHANGED outside_engine

\* start_app from mjs_engine_execute on: the app of a stopped record whose
\* sandbox was created and whose entry file was loaded.
start_app_execute(code, exec_time) ==
    /\ \E ex \in {ExecuteScript(SandboxContext(code), engine.s_error_callback,
                                exec_time)} :
           engine' = Evaluation("execute", engine.s_error_callback, ex.ctx,
                         exec_time, ex.val, ex.result,
                         IF ex.result # JS_EXEC_OK THEN ESP_FAIL ELSE ESP_OK,
                         IF ex.result # JS_EXEC_OK THEN APP_STATE_STOPPED
                         ELSE APP_STATE_RUNNING)
    /\ UNCHANGED outside_engine

\* ------------------------------------------------------------------------
\* Scripting engine: the global table of an instance
\* ------------------------------------------------------------------------
\* The names scripts bind, the values they bind them to, and the numbers of
\* user-defined native functions in s_native_functions that leave room for
\* fewer than MaxNames further names, besides none.
NameSeq == << "x", "y", "z" >>
ScriptNames == {NameSeq[i] : i \in 1..MaxNames}
ScriptValues == {[number |-> 1], [number |-> 2]}
BuiltinNames == << "console.log", "setTimeout", "clearTimeout", "print" >>
NativeCounts ==
    {0} \cup ((MAX_GLOBALS - Len(BuiltinNames) - MaxNames + 1)
                  ..(MAX_GLOBALS - Len(BuiltinNames)))
CalledNames == ScriptNames \cup {"print"}

\* The four built-in functions, then s_native_functions.names[0..count-1].
mjs_register_native_functions(globals, count) ==
    RegisterNames(globals, BuiltinNames \o [i \in 1..count |-> ToString(i)])

\* A binding of name is accepted when the name is bound already or fewer
\* than MAX_GLOBALS names are.
Accept(bound, name, val) ==
    IF name \in DOMAIN bound \/ Cardinality(DOMAIN bound) < MAX_GLOBALS
    THEN [n \in DOMAIN bound \cup {name} |->
             IF n = name THEN val ELSE bound[n]]
    ELSE bound

RECURSIVE AcceptAll(_, _)
AcceptAll(bound, names) ==
    IF names = <<>> THEN bound
    ELSE AcceptAll(Accept(bound, Head(names), [native |-> Head(names)]),
                   Tail(names))

\* mjs_create followed by mjs_register_native_functions.
mjs_create_registered(count) ==
    /\ \E g \in {mjs_register_native_functions(<<>>, count)} :
          gtable' = GTable(g,
                           AcceptAll(<<>>, BuiltinNames
                                     \o [i \in 1..count |-> ToString(i)]),
                           "register", "", MJS_UNDEFINED, MJS_UNDEFINED)
    /\ UNCHANGED outside_globals

mjs_set_global_call(name, val) ==
    /\ gtable' = GTable(mjs_set_global(gtable.globals, name, val),
                        Accept(gtable.bound, name, val),
                        "set_global", name, val, MJS_UNDEFINED)
    /\ UNCHANGED outside_globals

mjs_set_ffi_func_call(name) ==
    /\ gtable' = GTable(mjs_set_ffi_func(gtable.globals, name),
                        Accept(gtable.bound, name, [native |-> name]),
                        "set_ffi_func", name, [native |-> name],
                        MJS_UNDEFINED)
    /\ UNCHANGED outside_globals

mjs_get_global_call(name) ==
    /\ gtable' = GTable(gtable.globals, gtable.bound, "get_global", name,
                        MJS_UNDEFINED,
                        mjs_get_global(gtable.globals, name))
    /\ UNCHANGED outside_globals

\* ------------------------------------------------------------------------
\* Sandbox Manager: limits, access checks and the clock
\* ------------------------------------------------------------------------
\* The ids passed to the sandbox API; only InstalledSandboxIds are installed.
SandboxIds == {0, 1}
InstalledSandboxIds == {0}

MemoryLimits == {32768}
TimeLimits == {10000}

\* A resource name as the sequence of its parts, cut so that no marker
\* straddles two parts.
Resources ==
    { << "/apps/", "data.txt" >>, << "/system/", "config" >>,
      << "rf.", "transmit" >>, << "/system/", "rf.", "cfg" >>,
      << "/system", ".cfg" >> }

strstr(resource, marker) == \E i \in DOMAIN resource : resource[i] = marker

\* The times by which the clock advances: 1 ms, the default time limit, and
\* what is left of 2^32 ms after it.
Durations == {ToU32(1), ToU32(5000), U32(65535, 60536)}

\* The clock d later.
Later(now, d) ==
    LET ms == Add32(now.ms, d)
    IN  Time(IF Gt32(now.ms, ms) THEN now.epoch + 1 ELSE now.epoch, ms)

vTaskDelay(d) ==
    /\ clock.steps < MaxClockSteps
    /\ clock' = [now |-> Later(clock.now, d), steps |-> clock.steps + 1]
    /\ UNCHANGED outside_clock

\* set_limits that also resizes the engine context.
SetLimits_resizes(sandboxes, contexts, slot, memory_limit, time_limit) ==
    [sandboxes |-> [sandboxes EXCEPT ![slot].memory_limit = memory_limit,
                                     ![slot].time_limit = time_limit],
     contexts |-> [contexts EXCEPT
                     ![sandboxes[slot].js_context].memory_limit = memory_limit,
                     ![sandboxes[slot].js_context].execution_time_limit_ms =
                         time_limit]]

\* sandbox->memory_limit = memory_limit; sandbox->time_limit = time_limit;
SetLimits(sandboxes, contexts, slot, memory_limit, time_limit) ==
    [sandboxes |-> [sandboxes EXCEPT ![slot].memory_limit = memory_limit,
                                     ![slot].time_limit = time_limit],
     contexts |-> contexts]

app_sandbox_set_limits(app_id, memory_limit, time_limit) ==
    /\ LET slot == find_sandbox(s_sandboxes, app_id)
       IN  IF slot = NULL
           THEN /\ call' = Call("set_limits", app_id, ESP_ERR_NOT_FOUND,
                                NoPackage)
                            @@ [memory_limit |-> memory_limit,
                                time_limit |-> time_limit]
                /\ UNCHANGED << s_sandboxes, s_contexts >>
           ELSE \E r \in {SetLimits(s_sandboxes, s_contexts, slot,
                                    memory_limit, time_limit)} :
                   /\ s_sandboxes' = r.sandboxes
                   /\ s_contexts' = r.contexts
                   /\ call' = Call("set_limits", app_id, ESP_OK, NoPackage)
                               @@ [memory_limit |-> memory_limit,
                                   time_limit |-> time_limit]
    /\ UNCHANGED << s_installed_apps, s_current_app_id, s_initialized,
                    s_sandbox_count, s_context_count, fs_dirs >>
    /\ UNCHANGED outside_app_manager

\* current_time - sandbox->start_time > sandbox->time_limit, in uint32_t.
TimeExceeded(sandbox, current_time) ==
    Gt32(Sub32(current_time, sandbox.start_time.ms), ToU32(sandbox.time_limit))

CheckAccess(sandboxes, apps, app_id, resource, current_time) ==
    LET slot == find_sandbox(sandboxes, app_id)
    IN  IF slot = NULL THEN FALSE
        ELSE IF TimeExceeded(sandboxes[slot], current_time) THEN FALSE
        ELSE IF /\ strstr(resource, "/system/")
                /\ ~app_manager_check_permission(apps, app_id, APP_PERM_SYSTEM)
        THEN FALSE
        ELSE IF /\ strstr(resource, "rf.")
                /\ ~app_manager_check_permission(apps, app_id,
                        APP_PERM_RF_RECEIVE \cup APP_PERM_RF_TRANSMIT)
        THEN FALSE
        ELSE TRUE

\* allowed: what check_access returned.
app_sandbox_check_access(app_id, resource) ==
    /\ call' = Call("check_access", app_id, ESP_OK, NoPackage)
                @@ [resource |-> resource,
                    allowed |-> CheckAccess(s_sandboxes, s_installed_apps,
                                            app_id, resource, clock.now.ms)]
    /\ UNCHANGED << s_installed_apps, s_current_app_id, s_initialized,
                    s_sandboxes, s_sandbox_count, s_contexts,
                    s_context_count, fs_dirs >>
    /\ UNCHANGED outside_app_manager

\* app_sandbox_create and app_sandbox_destroy called directly, create for an
\* id that has no sandbox.
app_sandbox_create_call(app_id) ==
    /\ find_sandbox(s_sandboxes, app_id) = NULL
    /\ \E r \in {app_sandbox_create(s_sandboxes, s_sandbox_count, s_contexts,
                                    s_context_count, app_id, "none")} :
           /\ s_sandboxes' = r.sandboxes
           /\ s_sandbox_count' = r.sbcount
           /\ s_contexts' = r.contexts
           /\ s_context_count' = r.ctxcount
           /\ call' = Call("sandbox_create", app_id, r.ret, NoPackage)
    /\ UNCHANGED << s_installed_apps, s_current_app_id, s_initialized,
                    fs_dirs >>
    /\ UNCHANGED outside_app_manager

app_sandbox_destroy_call(app_id) ==
    /\ \E r \in {app_sandbox_destroy(s_sandboxes, s_sandbox_count, s_contexts,
                                     s_context_count, app_id)} :
           /\ s_sandboxes' = r.sandboxes
           /\ s_sandbox_count' = r.sbcount
           /\ s_contexts' = r.contexts
           /\ s_context_count' = r.ctxcount
           /\ call' = Call("sandbox_destroy", app_id, r.ret, NoPackage)
    /\ UNCHANGED << s_installed_apps, s_current_app_id, s_initialized,
                    fs_dirs >>
    /\ UNCHANGED outside_app_manager

\* ------------------------------------------------------------------------
\* Scripting engine: loading source text
\* ------------------------------------------------------------------------
DEFAULT_MEMORY_LIMIT == 65536

\* The limits passed to mjs_engine_create_context: 0 asks for the default.
RequestedLimits == {0, 5}

\* The sizes of the texts: empty, and around half of either limit.
TextSizes == {0, 2, 3, DEFAULT_MEMORY_LIMIT \div 2, DEFAULT_MEMORY_LIMIT \div 2 + 1}
Texts == {Text(id, len) : id \in 1..MaxTexts, len \in TextSizes}
FileNames == {"a.js", "b.js"}
LoadFaults_file == {"none", "fopen", "malloc", "fread"}

\* The limit with >= for >: a text of exactly half the limit is refused.
TooLarge_at_half(size, memory_limit) == size >= memory_limit \div 2

\* size > ctx->memory_limit / 2
TooLarge(size, memory_limit) == size > memory_limit \div 2

\* mjs_engine_load_file of a file with the content text: its result and the
\* context afterwards.
LoadFile(ctx, filename, text, fault) ==
    IF fault = "fopen"
    THEN [ret |-> ESP_ERR_NOT_FOUND, ctx |-> ctx]
    ELSE IF text.len <= 0 \/ TooLarge(text.len, ctx.memory_limit)
    THEN [ret |-> ESP_ERR_INVALID_SIZE, ctx |-> ctx]
    ELSE IF fault = "malloc"
    THEN [ret |-> ESP_ERR_NO_MEM, ctx |-> ctx]
    ELSE IF fault = "fread"
    THEN [ret |-> ESP_ERR_INVALID_SIZE, ctx |-> ctx]
    ELSE [ret |-> ESP_OK,
          ctx |-> [ctx EXCEPT !.filename = filename, !.code = text]]

\* mjs_engine_load_string; filename "" is the NULL pointer.
LoadString(ctx, text, filename) ==
    IF TooLarge(text.len, ctx.memory_limit)
    THEN [ret |-> ESP_ERR_INVALID_SIZE, ctx |-> ctx]
    ELSE [ret |-> ESP_OK,
          ctx |-> [ctx EXCEPT
                     !.filename = IF filename = "" THEN "string"
                                  ELSE filename,
                     !.code = text]]

\* A new context: ctx->memory_limit = memory_limit > 0 ? memory_limit :
\* DEFAULT_MEMORY_LIMIT, no code and no filename.
mjs_engine_create_context_call(memory_limit) ==
    /\ loader' =
          [ctx |-> LoadContext(IF memory_limit > 0 THEN memory_limit
                               ELSE DEFAULT_MEMORY_LIMIT, NoText, ""),
           last |-> LoadCall("create_context", ESP_OK, NoText, "", "none")]
    /\ UNCHANGED outside_loader

\* The load functions are called on a context that was created.
mjs_engine_load_file_call(filename, text, fault) ==
    /\ loader.ctx.memory_limit > 0
    /\ \E r \in {LoadFile(loader.ctx, filename, text, fault)} :
           loader' = [ctx |-> r.ctx,
                      last |-> LoadCall("load_file", r.ret, text, filename,
                                        fault)]
    /\ UNCHANGED outside_loader

mjs_engine_load_string_call(text, filename) ==
    /\ loader.ctx.memory_limit > 0
    /\ \E r \in {LoadString(loader.ctx, text, filename)} :
           loader' = [ctx |-> r.ctx,
                      last |-> LoadCall("load_string", r.ret, text, filename,
                                        "none")]
    /\ UNCHANGED outside_loader

\* ------------------------------------------------------------------------
\* CC1101 driver
\* ------------------------------------------------------------------------
CC1101_FREQ_315MHZ == 315000000
CC1101_FREQ_433MHZ == 433920000
CC1101_FREQ_868MHZ == 868300000

Frequencies == {CC1101_FREQ_315MHZ, CC1101_FREQ_433MHZ, CC1101_FREQ_868MHZ}

\* The configurations passed to cc1101_init.
RadioConfigs ==
    {NullConfig}
    \cup {RadioConfig(FALSE, dev, f) : dev \in BOOLEAN, f \in Frequencies}

\* The sweeps passed to cc1101_start_spectrum_analysis.
SweepFrequencies == {433000000, 434000000}
SweepSteps == {0, 100000}

\* ESP_ERROR_CHECK(x): the default expansion calls abort() when x is not
\* ESP_OK; with NDEBUG it evaluates x and goes on.
ErrorChecks == {"abort", "ignore"}

ESP_ERROR_CHECK(ret, check) == ret # ESP_OK /\ check = "abort"

\* freq_word = frequency * 65536 / 26000000 in 64 bits, as the three bytes
\* FREQ2, FREQ1, FREQ0. 65536 / 26000000 = 1024 / 406250.
cc1101_calc_freq_regs(frequency) ==
    LET freq_word == (frequency \div 406250) * 1024
                     + ((frequency % 406250) * 1024) \div 406250
    IN  << (freq_word \div 65536) % 256, (freq_word \div 256) % 256,
           freq_word % 256 >>

\* cc1101_set_frequency on the driver d: its result and the driver after.
cc1101_set_frequency(d, frequency_hz) ==
    IF ~d.s_initialized
    THEN [ret |-> ESP_ERR_INVALID_STATE, driver |-> d]
    ELSE [ret |-> ESP_OK,
          driver |-> [d EXCEPT !.freq_regs = cc1101_calc_freq_regs(frequency_hz),
                               !.frequency_hz = frequency_hz]]

\* cc1101_load_preset_gfsk and cc1101_load_preset_ask_ook: the registers of
\* the preset are written, then the frequency is set.
cc1101_load_preset(d, frequency) == cc1101_set_frequency(d, frequency)

\* cc1101_set_modulation and cc1101_set_data_rate: their result.
cc1101_set_modulation(d) ==
    IF ~d.s_initialized THEN ESP_ERR_INVALID_STATE ELSE ESP_OK

\* The results that cc1101_init passes to ESP_ERROR_CHECK after the module
\* was found, in the order of the calls, on the driver d0 = the driver after
\* the memcpy of the configuration.
InitChecks(d0, config) ==
    LET preset == cc1101_load_preset(d0, config.frequency_hz)
        custom == cc1101_set_frequency(preset.driver, config.frequency_hz)
    IN  [rets |-> << preset.ret, custom.ret,
                     cc1101_set_modulation(custom.driver) >>,
         driver |-> custom.driver]

\* The driver restarts after abort(): the statics are those of the image.
Aborted(config, present) ==
    [driver |-> ZeroDriver, check |-> "abort",
     last |-> RadioCall("cc1101_init", "abort", config, present, 0, 0, 0)]

cc1101_init(config, present, check) ==
    /\ radio.check \in {"unknown", check}
    /\ LET d0 == [radio.driver EXCEPT !.frequency_hz = config.frequency_hz]
           checks == InitChecks(d0, config)
           Returned(ret, d, chk) ==
               [driver |-> d, check |-> chk,
                last |-> RadioCall("cc1101_init", ret, config, present,
                                   0, 0, 0)]
       IN  radio' =
             IF config.null \/ ~config.spi_device
             THEN Returned(ESP_ERR_INVALID_ARG, radio.driver, radio.check)
             ELSE IF ~present
             THEN Returned(ESP_ERR_NOT_FOUND, d0, radio.check)
             ELSE IF \E i \in DOMAIN checks.rets :
                        ESP_ERROR_CHECK(checks.rets[i], check)
             THEN Aborted(config, present)
             ELSE Returned(ESP_OK,
                           [checks.driver EXCEPT !.s_initialized = TRUE],
                           IF \E i \in DOMAIN checks.rets :
                                 checks.rets[i] # ESP_OK
                           THEN check ELSE radio.check)
    /\ UNCHANGED outside_radio

cc1101_deinit ==
    /\ radio' =
          IF ~radio.driver.s_initialized
          THEN [radio EXCEPT !.last = RadioCall("cc1101_deinit",
                                 ESP_ERR_INVALID_STATE, NullConfig, FALSE,
                                 0, 0, 0)]
          ELSE [radio EXCEPT !.driver.s_initialized = FALSE,
                             !.last = RadioCall("cc1101_deinit", ESP_OK,
                                                NullConfig, FALSE, 0, 0, 0)]
    /\ UNCHANGED outside_radio

cc1101_set_frequency_call(frequency_hz) ==
    /\ LET r == cc1101_set_frequency(radio.driver, frequency_hz)
       IN  radio' = [radio EXCEPT
                       !.driver = r.driver,
                       !.last = [RadioCall("cc1101_set_frequency", r.ret,
                                           NullConfig, FALSE, 0, 0, 0)
                                 EXCEPT !.frequency = frequency_hz]]
    /\ UNCHANGED outside_radio

\* cc1101_get_frequency: frequency holds what it returned.
cc1101_get_frequency ==
    /\ radio' = [radio EXCEPT
                   !.last = [RadioCall("cc1101_get_frequency", ESP_OK,
                                       NullConfig, FALSE, 0, 0, 0)
                             EXCEPT !.frequency = radio.driver.frequency_hz]]
    /\ UNCHANGED outside_radio

InvalidSweep_strict(start_frequency, stop_frequency, step_size) ==
    start_frequency >= stop_frequency \/ step_size = 0

InvalidSweep(start_frequency, stop_frequency, step_size) ==
    start_frequency > stop_frequency \/ step_size = 0

cc1101_start_spectrum_analysis(start_frequency, stop_frequency, step_size) ==
    /\ LET Returned(ret, d) ==
               [radio EXCEPT
                  !.driver = d,
                  !.last = RadioCall("cc1101_start_spectrum_analysis", ret,
                                     NullConfig, FALSE, start_frequency,
                                     stop_frequency, step_size)]
       IN  radio' =
             IF ~radio.driver.s_initialized
             THEN Returned(ESP_ERR_INVALID_STATE, radio.driver)
             ELSE IF InvalidSweep(start_frequency, stop_frequency, step_size)
             THEN Returned(ESP_ERR_INVALID_ARG, radio.driver)
             ELSE Returned(ESP_OK,
                    [radio.driver EXCEPT
                       !.s_spectrum_start_freq = start_frequency,
                       !.s_spectrum_stop_freq = stop_frequency,
                       !.s_spectrum_step_size = step_size,
                       !.s_spectrum_analysis_running = TRUE])
    /\ UNCHANGED outside_radio

cc1101_stop_spectrum_analysis ==
    /\ radio' =
          IF ~radio.driver.s_initialized
          THEN [radio EXCEPT !.last = RadioCall(
                                 "cc1101_stop_spectrum_analysis",
                                 ESP_ERR_INVALID_STATE, NullConfig, FALSE,
                                 0, 0, 0)]
          ELSE [radio EXCEPT
                  !.driver.s_spectrum_analysis_running = FALSE,
                  !.last = RadioCall("cc1101_stop_spectrum_analysis", ESP_OK,
                                     NullConfig, FALSE, 0, 0, 0)]
    /\ UNCHANGED outside_radio

\* ------------------------------------------------------------------------
\* App Manager: tasks and the registry mutex
\* ------------------------------------------------------------------------
\* A task calls one of the operations.
enter(t, op, app_id) ==
    /\ task[t].pc = "idle"
    /\ task' = [task EXCEPT ![t] =
                   [op |-> op, k |-> 1, seen |-> <<>>,
                    app_id |-> IF op \in IdOps THEN app_id ELSE NoAppId,
                    pc |-> IF op \in LockedOps THEN "take" ELSE "read"]]
    /\ UNCHANGED << s_app_mutex, current_app_bytes, access >>
    /\ UNCHANGED outside_tasks

\* xSemaphoreTake(s_app_mutex, portMAX_DELAY)
xSemaphoreTake(t) ==
    /\ task[t].pc = "take"
    /\ s_app_mutex = NoTask
    /\ s_app_mutex' = t
    /\ task' = [task EXCEPT ![t].pc = "records"]
    /\ UNCHANGED << current_app_bytes, access >>
    /\ UNCHANGED outside_tasks

\* The operation reads or writes s_installed_apps and s_num_installed_apps.
registry_access(t) ==
    /\ task[t].pc = "records"
    /\ access' = [task |-> t, op |-> task[t].op, part |-> "records",
                  locked |-> s_app_mutex = t]
    /\ task' = [task EXCEPT ![t].pc =
                   IF task[t].op = "start_app" THEN "strcpy"
                   ELSE IF task[t].op = "stop_app" THEN "clear"
                   ELSE "give"]
    /\ UNCHANGED << s_app_mutex, current_app_bytes >>
    /\ UNCHANGED outside_tasks

\* strcpy(s_current_app_id, app_id), one character at a time.
strcpy_char(t) ==
    /\ task[t].pc = "strcpy"
    /\ current_app_bytes' =
           [current_app_bytes EXCEPT ![task[t].k] = task[t].app_id[task[t].k]]
    /\ access' = [task |-> t, op |-> task[t].op, part |-> "current",
                  locked |-> s_app_mutex = t]
    /\ task' = [task EXCEPT
                   ![t].k = task[t].k + 1,
                   ![t].pc = IF task[t].app_id[task[t].k] = NUL
                             THEN "give" ELSE "strcpy"]
    /\ UNCHANGED s_app_mutex
    /\ UNCHANGED outside_tasks

\* if (strcmp(s_current_app_id, app_id) == 0) s_current_app_id[0] = '\0';
clear_current(t) ==
    /\ task[t].pc = "clear"
    /\ current_app_bytes' =
           IF CString(current_app_bytes) = CString(task[t].app_id)
           THEN [current_app_bytes EXCEPT ![1] = NUL]
           ELSE current_app_bytes
    /\ access' = [task |-> t, op |-> task[t].op, part |-> "current",
                  locked |-> s_app_mutex = t]
    /\ task' = [task EXCEPT ![t].pc = "give"]
    /\ UNCHANGED s_app_mutex
    /\ UNCHANGED outside_tasks

\* xSemaphoreGive(s_app_mutex) and the return.
xSemaphoreGive(t) ==
    /\ task[t].pc = "give"
    /\ s_app_mutex' = NoTask
    /\ task' = [task EXCEPT ![t].pc = "idle"]
    /\ UNCHANGED << current_app_bytes, access >>
    /\ UNCHANGED outside_tasks

\* return s_current_app_id[0] ? s_current_app_id : NULL;
app_manager_get_current_app(t) ==
    /\ task[t].pc = "read"
    /\ access' = [task |-> t, op |-> task[t].op, part |-> "current",
                  locked |-> s_app_mutex = t]
    /\ task' = [task EXCEPT ![t].pc =
                   IF current_app_bytes[1] = NUL THEN "idle" ELSE "use"]
    /\ UNCHANGED << s_app_mutex, current_app_bytes >>
    /\ UNCHANGED outside_tasks

\* The caller reads the string that get_current_app returned a pointer to.
use_current_app(t) ==
    /\ task[t].pc = "use"
    /\ task' = [task EXCEPT ![t].pc = "idle",
                            ![t].seen = CString(current_app_bytes)]
    /\ UNCHANGED << s_app_mutex, current_app_bytes, access >>
    /\ UNCHANGED outside_tasks

\* ------------------------------------------------------------------------
\* App Manager: the operations as threads execute them
\* ------------------------------------------------------------------------
\* The app id that every thread passes, and the faults of the environment.
ThreadAppIds == {0}
ThreadInstallFaults == {"none", "fopen_manifest"}
ThreadStartFaults == {"none", "calloc", "fopen"}

\* The app ids are only ever compared for equality, so a value that
\* esp_random() returns for the first time is named by the least number that
\* has no directory yet; a value it returned before is any number that has
\* one.
esp_random(ids) == {r \in ids : r <= Cardinality(fs_dirs)}

\* The app is installed and Stopped.
Stopped(app_id) ==
    LET i == FindApp(s_installed_apps, app_id)
    IN  i # 0 /\ s_installed_apps[i].state = APP_STATE_STOPPED

\* The call that thread t begins is a start_app of a Stopped app for which
\* the start_app of another thread has begun and not passed the take.
Overlaps(t, op, app_id) ==
    /\ op = "start_app"
    /\ Stopped(app_id)
    /\ \E u \in Threads \ {t} :
          /\ thread[u].op = "start_app"
          /\ thread[u].app_id = app_id
          /\ thread[u].pc = "take"

\* A thread calls an operation with arguments that are not NULL.
thread_call(t, op) ==
    /\ thread[t].pc = "idle"
    /\ \E app_id \in ThreadAppIds :
           thread' = [thread EXCEPT ![t] =
                         ThreadCall("take", op, app_id, "pending", "none", 0,
                                    Overlaps(t, op, app_id))]
    /\ UNCHANGED << appvars, storevars, s_app_mutex >>
    /\ UNCHANGED outside_threads

\* A thread calls an operation with a NULL argument: the call returns before
\* the take.
thread_call_null(t, op) ==
    /\ thread[t].pc = "idle"
    /\ thread' = [thread EXCEPT ![t] =
                     ThreadCall("idle", op, NULL,
                         IF op = "check_permission" THEN "false"
                         ELSE ESP_ERR_INVALID_ARG,
                         "invalid_arg", 0, FALSE)]
    /\ UNCHANGED << appvars, storevars, s_app_mutex >>
    /\ UNCHANGED outside_threads

\* A take that does not wait for the holder.
MutexAvailable_always(mutex) == TRUE

\* xSemaphoreTake(s_app_mutex, portMAX_DELAY) returns when no task holds it.
MutexAvailable(mutex) == mutex = NoTask

take_app_mutex(t) ==
    /\ thread[t].pc = "take"
    /\ MutexAvailable(s_app_mutex)
    /\ s_app_mutex' = t
    /\ thread' = [thread EXCEPT ![t].pc = "locked"]
    /\ UNCHANGED << appvars, storevars >>
    /\ UNCHANGED outside_threads

\* The call goes to its return path with the result ret.
Return(t, ret, path) ==
    [thread EXCEPT ![t].pc = "give", ![t].ret = ret, ![t].path = path]

\* install between the take and the give of the path it takes.
install_locked(t, p, fault) ==
    /\ thread[t].pc = "locked"
    /\ thread[t].op = "install"
    /\ UNCHANGED << s_current_app_id, s_initialized, s_sandboxes,
                    s_sandbox_count, s_contexts, s_context_count, call,
                    storevars, s_app_mutex >>
    /\ UNCHANGED outside_threads
    /\ IF RegistryFull(s_installed_apps)
       THEN /\ thread' = Return(t, ESP_ERR_NO_MEM, "full")
            /\ UNCHANGED << s_installed_apps, fs_dirs >>
       ELSE \E r \in esp_random(ThreadAppIds) :
            \E ex \in {app_installer_extract_package(
                            Packages[p], r, fs_dirs, fault)} :
                /\ fs_dirs' = ex.dirs
                /\ IF ex.ret # ESP_OK
                   THEN /\ thread' = Return(t, ex.ret, "extract")
                        /\ UNCHANGED s_installed_apps
                   ELSE IF ex.manifest = <<>>
                   THEN /\ thread' = Return(t, ESP_ERR_NOT_FOUND, "manifest")
                        /\ UNCHANGED s_installed_apps
                   ELSE /\ s_installed_apps' = Append(s_installed_apps,
                               NewAppInfo(r,
                                   mjs_engine_load_manifest(ex.manifest)))
                        /\ thread' = Return(t, ESP_OK, "ok")

\* start_app from the take to the call of mjs_engine_execute: the paths
\* that return before it, or the sandbox with the loaded file.
start_app_locked(t, fault) ==
    /\ thread[t].pc = "locked"
    /\ thread[t].op = "start_app"
    /\ UNCHANGED << s_current_app_id, s_initialized, fs_dirs, call,
                    storevars, s_app_mutex >>
    /\ UNCHANGED outside_threads
    /\ LET app_id == thread[t].app_id
           i == FindApp(s_installed_apps, app_id)
       IN  IF i = 0
           THEN /\ thread' = Return(t, ESP_ERR_NOT_FOUND, "not_found")
                /\ UNCHANGED << s_installed_apps, s_sandboxes,
                                s_sandbox_count, s_contexts, s_context_count >>
           ELSE IF AlreadyRunning(s_installed_apps[i])
           THEN /\ thread' = Return(t, ESP_OK, "running")
                /\ UNCHANGED << s_installed_apps, s_sandboxes,
                                s_sandbox_count, s_contexts, s_context_count >>
           ELSE \E sb \in {app_sandbox_create(s_sandboxes, s_sandbox_count,
                                s_contexts, s_context_count, app_id, fault)} :
                IF sb.ret # ESP_OK
                THEN /\ thread' = Return(t, sb.ret, "sandbox")
                     /\ UNCHANGED << s_installed_apps, s_sandboxes,
                                     s_sandbox_count, s_contexts,
                                     s_context_count >>
                ELSE \E ld \in {mjs_engine_load_file(sb.contexts, sb.ctx,
                                                     fault)} :
                     IF ld.ret # ESP_OK
                     THEN \E un \in {app_sandbox_destroy(sb.sandboxes,
                                         sb.sbcount, ld.contexts,
                                         sb.ctxcount, app_id)} :
                          /\ s_installed_apps' =
                                [s_installed_apps EXCEPT ![i].js_context = NULL]
                          /\ s_sandboxes' = un.sandboxes
                          /\ s_sandbox_count' = un.sbcount
                          /\ s_contexts' = un.contexts
                          /\ s_context_count' = un.ctxcount
                          /\ thread' = Return(t, ld.ret, "load")
                     ELSE /\ s_installed_apps' =
                                [s_installed_apps EXCEPT
                                   ![i].js_context = sb.ctx]
                          /\ s_sandboxes' = sb.sandboxes
                          /\ s_sandbox_count' = sb.sbcount
                          /\ s_contexts' = ld.contexts
                          /\ s_context_count' = sb.ctxcount
                          /\ thread' = [thread EXCEPT ![t].pc = "execute"]

\* mjs_engine_execute returns to start_app; slow: the evaluation took longer
\* than the time limit.
start_app_executed(t, slow) ==
    /\ thread[t].pc = "execute"
    /\ UNCHANGED << s_initialized, fs_dirs, call, storevars, s_app_mutex >>
    /\ UNCHANGED outside_threads
    /\ LET app_id == thread[t].app_id
           i == FindApp(s_installed_apps, app_id)
       IN  \E ex \in {mjs_engine_execute(s_contexts,
                           s_installed_apps[i].js_context, slow)} :
           IF ex.result # JS_EXEC_OK
           THEN \E un \in {app_sandbox_destroy(s_sandboxes, s_sandbox_count,
                               ex.contexts, s_context_count, app_id)} :
                /\ s_installed_apps' =
                      [s_installed_apps EXCEPT ![i].js_context = NULL]
                /\ s_sandboxes' = un.sandboxes
                /\ s_sandbox_count' = un.sbcount
                /\ s_contexts' = un.contexts
                /\ s_context_count' = un.ctxcount
                /\ UNCHANGED s_current_app_id
                /\ thread' = Return(t, ESP_FAIL, "execute")
           ELSE /\ s_installed_apps' =
                      [s_installed_apps EXCEPT ![i].state = APP_STATE_RUNNING]
                /\ s_current_app_id' = app_id
                /\ s_contexts' = ex.contexts
                /\ UNCHANGED << s_sandboxes, s_sandbox_count,
                                s_context_count >>
                /\ thread' = Return(t, ESP_OK, "ok")

stop_app_locked(t) ==
    /\ thread[t].pc = "locked"
    /\ thread[t].op = "stop_app"
    /\ UNCHANGED << s_initialized, fs_dirs, call, storevars, s_app_mutex >>
    /\ UNCHANGED outside_threads
    /\ LET i == FindApp(s_installed_apps, thread[t].app_id)
       IN  \E r \in {StopApp(s_installed_apps, s_current_app_id,
                             s_sandboxes, s_sandbox_count, s_contexts,
                             s_context_count, thread[t].app_id)} :
           /\ s_installed_apps' = r.apps
           /\ s_current_app_id' = r.cur
           /\ s_sandboxes' = r.sandboxes
           /\ s_sandbox_count' = r.sbcount
           /\ s_contexts' = r.contexts
           /\ s_context_count' = r.ctxcount
           /\ thread' = Return(t, r.ret,
                   IF i = 0 THEN "not_found"
                   ELSE IF s_installed_apps[i].state # APP_STATE_RUNNING
                   THEN "not_running" ELSE "ok")

\* list_apps and check_permission read the registry.
list_apps_locked(t) ==
    /\ thread[t].pc = "locked"
    /\ thread[t].op = "list_apps"
    /\ thread' = Return(t, ESP_OK, "ok")
    /\ UNCHANGED << appvars, storevars, s_app_mutex >>
    /\ UNCHANGED outside_threads

check_permission_locked(t, permission) ==
    /\ thread[t].pc = "locked"
    /\ thread[t].op = "check_permission"
    /\ LET i == FindApp(s_installed_apps, thread[t].app_id)
       IN  thread' =
             IF i = 0 THEN Return(t, "false", "not_found")
             ELSE Return(t,
                    IF app_manager_check_permission(s_installed_apps,
                           thread[t].app_id, permission)
                    THEN "true" ELSE "false",
                    "found")
    /\ UNCHANGED << appvars, storevars, s_app_mutex >>
    /\ UNCHANGED outside_threads

\* Return paths that leave without xSemaphoreGive: only the last one gives.
GivesOnPath_last_only(op, path) == path = "ok"

\* Every return path after the take calls xSemaphoreGive(s_app_mutex).
GivesOnPath(op, path) == TRUE

\* xSemaphoreGive(s_app_mutex) of the path, and the return.
give_app_mutex(t) ==
    /\ thread[t].pc = "give"
    /\ IF GivesOnPath(thread[t].op, thread[t].path)
       THEN /\ s_app_mutex' = IF s_app_mutex = t THEN NoTask ELSE s_app_mutex
            /\ thread' = [thread EXCEPT ![t].pc = "idle", ![t].gives = 1,
                                        ![t].overlaps = FALSE]
       ELSE /\ thread' = [thread EXCEPT ![t].pc = "idle",
                                        ![t].overlaps = FALSE]
            /\ UNCHANGED s_app_mutex
    /\ UNCHANGED << appvars, storevars >>
    /\ UNCHANGED outside_threads

\* ------------------------------------------------------------------------
\* Permission strings (inputs)
\* ------------------------------------------------------------------------
Blanks == {" ", "\t", "\n", "\r"}
\* The inputs take one blank that parse trims at both ends of a token and one
\* that it trims at the end only, the first and the last name of the table, and
\* a word that is not in the table.
InputBlanks == {" ", "\n"}
InputWords == {"rf.receive", "system", "bogus"}
BlankRuns == UNION {[1..n -> InputBlanks] : n \in 0..MaxBlanks}
WordRuns == {<<>>} \cup {<<w>> : w \in InputWords}
InputTokens == {l \o w \o t : l \in BlankRuns, w \in WordRuns, t \in BlankRuns}
InputCsvs == UNION {[1..n -> InputTokens] : n \in 0..MaxTokens}
AllPermissions == UNION {permission_map[i].flag : i \in 1..PERMISSION_COUNT}

\* to_string(parse(csv))
parse_then_to_string(csv) ==
    /\ \E bits \in {app_permissions_parse_string(csv)} :
           fcall' = FCall("parse_to_string", csv, bits,
                          app_permissions_to_string(bits), {})
    /\ UNCHANGED outside_strings

\* parse(to_string(bits))
to_string_then_parse(bits) ==
    /\ \E text \in {app_permissions_to_string(bits)} :
           fcall' = FCall("to_string_parse", <<>>, bits, text,
                          app_permissions_parse_string(text))
    /\ UNCHANGED outside_strings

\* ------------------------------------------------------------------------
\* Specifications
\* ------------------------------------------------------------------------
\* Spec: every operation with every input over the ids of RandomIds and with
\* every fault of the environment.
Next ==
    \/ \E p \in 1..Len(Packages), r \in esp_random(RandomIds),
          f \in InstallFaults :
          app_manager_install(p, r, f)
    \/ \E id \in RandomIds, f \in StartFaults, slow \in BOOLEAN :
          app_manager_start_app(id, f, slow)
    \/ \E id \in RandomIds : app_manager_stop_app(id)
    \/ app_manager_deinit
    \/ app_manager_init
    \/ \E slot \in SandboxSlots, ok \in BOOLEAN : js_rf_transmit(slot, ok)
    \/ \E slot \in SandboxSlots, ok \in BOOLEAN :
          js_storage_write_text(slot, ok)

Spec == Init /\ [][Next]_vars

\* SpecFull: enough app ids to fill the registry and the sandbox pool.
\* Packages exist and the file system does not fail; apps are started in
\* the order of their ids and stopped in the reverse order.
NextInOrder == {id \in RandomIdsFull : s_sandbox_count - 1 <= id
                                       /\ id <= s_sandbox_count}

NextFull ==
    \/ \E p \in {q \in 1..Len(Packages) : Packages[q].exists},
          r \in esp_random(RandomIdsFull) :
          app_manager_install(p, r, "none")
    \/ \E id \in NextInOrder, f \in StartFaults, slow \in BOOLEAN :
          app_manager_start_app(id, f, slow)
    \/ \E id \in NextInOrder : app_manager_stop_app(id)

SpecFull == Init /\ [][NextFull]_vars

\* SpecPerm: the operations of the Permission Store with every fault of
\* NVS, for the app ids of PermIds and the masks over PermBits.
NextPerm ==
    \/ \E id \in PermIds, f \in LoadFaults : app_permissions_load(id, f)
    \/ \E id \in PermIds, m \in Masks, f \in SaveFaults :
          app_permissions_save(id, m, f)
    \/ \E id \in PermIds, m \in Masks, f \in LoadFaults :
          app_permissions_check(id, m, f)
    \/ \E id \in PermIds, m \in Flags, lf \in LoadFaults, sf \in SaveFaults :
          app_permissions_grant(id, m, lf, sf)
    \/ \E id \in PermIds, m \in Flags, lf \in LoadFaults, sf \in SaveFaults :
          app_permissions_revoke(id, m, lf, sf)

    \/ \E id \in PermIds \cup {UnknownId}, m \in Masks :
          app_manager_check_permission_call(id, m)

\* The registry is the one after one install of a package that exists; the
\* store is empty.
InitPerm ==
    /\ s_installed_apps =
           << NewAppInfo(0, mjs_engine_load_manifest(DefaultManifestFile)) >>
    /\ fs_dirs = {0}
    /\ call = Call("install", 0, ESP_OK, 1)
    /\ s_current_app_id = EmptyId
    /\ s_initialized = TRUE
    /\ s_sandboxes = [i \in SandboxSlots |-> ZeroSandbox]
    /\ s_sandbox_count = 0
    /\ s_contexts = [i \in ContextSlots |-> NoContext]
    /\ s_context_count = 0
    /\ nvs = <<>>
    /\ nvs_namespace = FALSE
    /\ pcall = PCall("none", EmptyId, {}, "none", ESP_OK, {})
    /\ fcall = NoFCall
    /\ engine = NoEvaluation
    /\ gtable = NoGlobals
    /\ radio = NoRadio
    /\ clock = Boot
    /\ wifi = WifiReady
    /\ pool_calls = NoPoolCalls
    /\ s_engine = EngineReady
    /\ updater = NoUpdates
    /\ thread = NoCalls
    /\ loader = NoLoad
    /\ s_app_mutex = NoTask
    /\ task = [t \in Tasks |-> Idle]
    /\ current_app_bytes = NoAppId
    /\ access = NoAccess

SpecPerm == InitPerm /\ [][NextPerm]_vars

\* SpecStrings: parse and to_string, for the CSVs of InputCsvs and for every
\* bitset over the nine permission bits.
NextStrings ==
    \/ \E csv \in InputCsvs : parse_then_to_string(csv)
    \/ \E bits \in SUBSET AllPermissions : to_string_then_parse(bits)

SpecStrings == Init /\ [][NextStrings]_vars

\* SpecEngine: the evaluation of the scripts of Scripts, each measured as
\* taking less than, exactly, or more than the time limit.
NextEngine ==
    \/ \E callback \in BOOLEAN : mjs_engine_set_error_callback(callback)
    \/ \E code \in Scripts, exec_time \in ExecTimes :
           start_app_execute(code, exec_time)

SpecEngine == Init /\ [][NextEngine]_vars

\* SpecTasks: the tasks of Tasks call the operations of the App Manager, one
\* step of one task at a time.
NextTasks ==
    \E t \in Tasks :
       \/ \E op \in LockedOps \cup {"get_current_app"}, app_id \in TaskAppIds :
              enter(t, op, app_id)
       \/ xSemaphoreTake(t)
       \/ registry_access(t)
       \/ strcpy_char(t)
       \/ clear_current(t)
       \/ xSemaphoreGive(t)
       \/ app_manager_get_current_app(t)
       \/ use_current_app(t)

SpecTasks == Init /\ [][NextTasks]_vars

\* SpecGlobals: set_global, set_ffi_func and get_global on the table of an
\* instance that was created empty or with its native functions registered.
NextGlobals ==
    \/ \E count \in NativeCounts : mjs_create_registered(count)
    \/ \E name \in CalledNames, val \in ScriptValues :
           mjs_set_global_call(name, val)
    \/ \E name \in CalledNames : mjs_set_ffi_func_call(name)
    \/ \E name \in CalledNames : mjs_get_global_call(name)

SpecGlobals == Init /\ [][NextGlobals]_vars

\* SpecRadio: the operations of the CC1101 driver, from the driver as the
\* image leaves it, in a build with either expansion of ESP_ERROR_CHECK.
NextRadio ==
    \/ \E config \in RadioConfigs, present \in BOOLEAN, check \in ErrorChecks :
           cc1101_init(config, present, check)
    \/ cc1101_deinit
    \/ \E f \in Frequencies : cc1101_set_frequency_call(f)
    \/ cc1101_get_frequency
    \/ \E a \in SweepFrequencies, b \in SweepFrequencies, s \in SweepSteps :
           cc1101_start_spectrum_analysis(a, b, s)
    \/ cc1101_stop_spectrum_analysis

SpecRadio == Init /\ [][NextRadio]_vars

\* SpecSandbox: the sandbox API called for an installed app and for an id
\* that is not installed, while the clock advances.
NextSandbox ==
    \/ \E p \in {q \in 1..Len(Packages) : Packages[q].exists},
          r \in InstalledSandboxIds :
          app_manager_install(p, r, "none")
    \/ \E id \in SandboxIds : app_sandbox_create_call(id)
    \/ \E id \in SandboxIds : app_sandbox_destroy_call(id)
    \/ \E id \in SandboxIds, m \in MemoryLimits, t \in TimeLimits :
          app_sandbox_set_limits(id, m, t)
    \/ \E id \in SandboxIds, resource \in Resources :
          app_sandbox_check_access(id, resource)
    \/ \E d \in Durations : vTaskDelay(d)

SpecSandbox == Init /\ [][NextSandbox]_vars

\* SpecLoader: load_file and load_string on a context created with the
\* default or with a small memory limit.
NextLoader ==
    \/ \E m \in RequestedLimits : mjs_engine_create_context_call(m)
    \/ \E f \in FileNames, text \in Texts,
          fault \in LoadFaults_file :
          mjs_engine_load_file_call(f, text, fault)
    \/ \E text \in Texts, f \in FileNames \cup {""} :
          mjs_engine_load_string_call(text, f)

SpecLoader == Init /\ [][NextLoader]_vars

\* SpecThreads: the threads of Threads call install, start_app, stop_app,
\* list_apps and check_permission, one step of one thread at a time.
ThreadStep(t) ==
    \/ \E op \in LockedOps : thread_call(t, op)
    \/ \E op \in LockedOps : thread_call_null(t, op)
    \/ take_app_mutex(t)
    \/ \E p \in {q \in 1..Len(Packages) : Packages[q].exists},
          f \in ThreadInstallFaults : install_locked(t, p, f)
    \/ \E f \in ThreadStartFaults : start_app_locked(t, f)
    \/ \E slow \in BOOLEAN : start_app_executed(t, slow)
    \/ stop_app_locked(t)
    \/ list_apps_locked(t)
    \/ \E permission \in {APP_PERM_RF_RECEIVE, APP_PERM_SYSTEM} :
          check_permission_locked(t, permission)
    \/ give_app_mutex(t)

NextThreads == \E t \in Threads : ThreadStep(t)

SpecThreads == Init /\ [][NextThreads]_vars

\* The steps of thread t after the take: each of them returns, the
\* evaluation of the script included.
Proceeds(t) ==
    \/ \E p \in {q \in 1..Len(Packages) : Packages[q].exists},
          f \in ThreadInstallFaults : install_locked(t, p, f)
    \/ \E f \in ThreadStartFaults : start_app_locked(t, f)
    \/ \E slow \in BOOLEAN : start_app_executed(t, slow)
    \/ stop_app_locked(t)
    \/ list_apps_locked(t)
    \/ \E permission \in {APP_PERM_RF_RECEIVE, APP_PERM_SYSTEM} :
          check_permission_locked(t, permission)
    \/ give_app_mutex(t)

\* SpecThreadsFair: two tasks of equal priority call the operations. A task
\* that is ready runs eventually, and a task that blocks in xSemaphoreTake
\* with portMAX_DELAY gets the mutex when it is given again and again.
NextThreadsFair == \E t \in TwoThreads : ThreadStep(t)

SpecThreadsFair ==
    /\ Init
    /\ [][NextThreadsFair]_vars
    /\ \A t \in TwoThreads :
          SF_vars(take_app_mutex(t)) /\ WF_vars(Proceeds(t))

\* SpecUpdates: two threads call grant and revoke for the app ids of
\* UpdateIds with one flag of UpdateFlags each; a step is the load or the save of one call.
NextUpdates ==
    \E t \in TwoThreads :
       \/ \E op \in {"grant", "revoke"}, id \in UpdateIds, m \in UpdateFlags,
             f \in UpdateLoadFaults : update_load(t, op, id, m, f)
       \/ \E f \in UpdateSaveFaults : update_save(t, f)

SpecUpdates == Init /\ [][NextUpdates]_vars

\* SpecEngineMutex: one task creates and destroys contexts and calls
\* mjs_engine_deinit and mjs_engine_init; every step that the task can take
\* is taken eventually.
NextEngineMutex ==
    \/ engine_init
    \/ \E m \in RequestedLimits, f \in {"none", "calloc"} :
          engine_create_context(m, f)
    \/ \E ctx \in ContextSlots : engine_destroy_context(ctx)
    \/ engine_deinit_take
    \/ engine_deinit_loop
    \/ engine_deinit_finish

InDeinit ==
    \/ engine_deinit_loop
    \/ s_engine.pc = "destroy" /\ engine_destroy_context(s_engine.i)
    \/ engine_deinit_finish

SpecEngineMutex ==
    Init /\ [][NextEngineMutex]_vars /\ WF_vars(InDeinit)

\* SpecPools: every sequence of at most MaxPoolCalls calls of
\* app_sandbox_create, app_sandbox_destroy, mjs_engine_create_context and
\* mjs_engine_destroy_context, for the app ids of PoolIds (also one that has
\* a sandbox) and every context that was created (also one that was
\* destroyed since), with creates that fail.
NextPools ==
    \/ \E id \in PoolIds, f \in {"none", "calloc"} :
          pool_sandbox_create(id, f)
    \/ \E id \in PoolIds : pool_sandbox_destroy(id)
    \/ \E f \in {"none", "calloc"} : pool_create_context(f)
    \/ \E ctx \in ContextSlots : pool_destroy_context(ctx)

SpecPools == Init /\ [][NextPools]_vars

\* SpecWifi: calls of wifi_manager_connect and wifi_manager_disconnect by
\* one task, and the events of the Wi-Fi driver in any order.
NextWifi ==
    \/ wifi_manager_connect
    \/ \E event \in WifiEvents : wifi_event_handler(event)
    \/ wifi_manager_connect_return
    \/ wifi_manager_disconnect

SpecWifi == Init /\ [][NextWifi]_vars

\* ------------------------------------------------------------------------
\* Properties
\* ------------------------------------------------------------------------
ActiveSlots(app_id) ==
    {s \in SandboxSlots :
        s_sandboxes[s].active /\ s_sandboxes[s].app_id = app_id}

ActiveSlotsAfter(app_id) ==
    {s \in SandboxSlots :
        s_sandboxes'[s].active /\ s_sandboxes'[s].app_id = app_id}

InstalledIds == {s_installed_apps[i].id : i \in 1..Len(s_installed_apps)}

\* C1: a permission-gated native function called for an app that lacks the
\* permission returns an error value and does not call its collaborator:
\* rf.transmit without APP_PERM_RF_TRANSMIT never reaches cc1101_transmit,
\* storage.writeText without APP_PERM_STORAGE_WRITE never reaches fopen.
C1_GatedNativeRefused ==
    /\ (call.op = "rf.transmit"
        /\ ~app_manager_check_permission(s_installed_apps, call.id,
                                         APP_PERM_RF_TRANSMIT))
       => (call.ret = "error" /\ call.collaborator = 0)
    /\ (call.op = "storage.writeText"
        /\ ~app_manager_check_permission(s_installed_apps, call.id,
                                         APP_PERM_STORAGE_WRITE))
       => (call.ret = "error" /\ call.collaborator = 0)

\* C2: every Running record has exactly one active sandbox slot with its id,
\* and its js_context is the context of that slot; every record that is not
\* Running has no active slot and a null js_context.
C2_SandboxMatchesState ==
    \A i \in 1..Len(s_installed_apps) :
        LET app == s_installed_apps[i]
            slots == ActiveSlots(app.id)
        IN  IF app.state = APP_STATE_RUNNING
            THEN /\ Cardinality(slots) = 1
                 /\ app.js_context # NULL
                 /\ \A s \in slots : s_sandboxes[s].js_context = app.js_context
            ELSE /\ slots = {}
                 /\ app.js_context = NULL

\* One app is Running in a slot other than the first, after the start of
\* another app failed at execute and its sandbox was torn down.
C2_Witness ==
    /\ call.op = "start_app" /\ call.ret = ESP_FAIL
    /\ \E i \in RunningApps(s_installed_apps) :
           /\ s_installed_apps[i].id # call.id
           /\ \E s \in ActiveSlots(s_installed_apps[i].id) : s > 0

\* C3: the current-app id is empty, or it is the id of exactly one record,
\* and that record is Running.
C3_CurrentIsRunning ==
    \/ s_current_app_id = EmptyId
    \/ /\ Cardinality({i \in 1..Len(s_installed_apps) :
                          s_installed_apps[i].id = s_current_app_id}) = 1
       /\ \A i \in 1..Len(s_installed_apps) :
              s_installed_apps[i].id = s_current_app_id
              => s_installed_apps[i].state = APP_STATE_RUNNING

\* stop_app of a Running app that was not the current one: the pointer stays
\* on the other Running app.
C3_Witness ==
    /\ call.op = "stop_app" /\ call.ret = ESP_OK
    /\ s_current_app_id # EmptyId
    /\ s_current_app_id # call.id
    /\ call.id \in InstalledIds
    /\ call.id \in fs_dirs
    /\ Cardinality(RunningApps(s_installed_apps)) >= 1

\* C4 as stated: at most one app is Running at any time.
C4_AtMostOneRunning == Cardinality(RunningApps(s_installed_apps)) <= 1

\* C4, amended: the Running apps are as many as the active sandboxes, which
\* are at most MAX_SANDBOXES; start_app of another app leaves the apps that
\* run Running.
C4_RunningWithinPool ==
    /\ Cardinality(RunningApps(s_installed_apps)) = s_sandbox_count
    /\ Cardinality({s \in SandboxSlots : s_sandboxes[s].active})
           = s_sandbox_count
    /\ s_sandbox_count <= MAX_SANDBOXES

\* MAX_SANDBOXES apps run and the start of one more installed app was
\* refused for want of a slot.
C4_Witness ==
    /\ Cardinality(RunningApps(s_installed_apps)) = MAX_SANDBOXES
    /\ call.op = "start_app" /\ call.ret = ESP_ERR_NO_MEM
    /\ call.id \in InstalledIds

\* C5: start_app of an app that is Running returns ESP_OK and changes
\* nothing: the sandboxes and their count, the contexts and their count, the
\* record with its js_context, and s_current_app_id are as before.
C5_StartRunningIsNoOp ==
    [][ LET i == FindApp(s_installed_apps, call'.id)
        IN  (call'.op = "start_app" /\ i # 0
             /\ s_installed_apps[i].state = APP_STATE_RUNNING)
            => /\ call'.ret = ESP_OK
               /\ UNCHANGED << s_installed_apps, s_current_app_id,
                               s_sandboxes, s_sandbox_count, s_contexts,
                               s_context_count >> ]_vars

\* start_app returned ESP_OK for a Running app that is not the current one:
\* a start that makes an app Running makes it the current one.
C5_Witness ==
    /\ call.op = "start_app" /\ call.ret = ESP_OK
    /\ s_current_app_id # call.id
    /\ s_current_app_id # EmptyId
    /\ \E i \in RunningApps(s_installed_apps) :
           s_installed_apps[i].id = call.id

\* C6: a start_app of an installed app that fails (at sandbox creation, at
\* load or at execute) leaves the app Stopped with no active sandbox slot and
\* a null js_context, and leaves s_sandbox_count, s_context_count and
\* s_current_app_id as they were.
C6_FailedStartUndone ==
    [][ LET i == FindApp(s_installed_apps, call'.id)
        IN  (call'.op = "start_app" /\ i # 0
             /\ s_installed_apps[i].state # APP_STATE_RUNNING
             /\ call'.ret # ESP_OK)
            => /\ s_installed_apps'[i].state = APP_STATE_STOPPED
               /\ s_installed_apps'[i].js_context = NULL
               /\ ActiveSlotsAfter(call'.id) = {}
               /\ s_sandbox_count' = s_sandbox_count
               /\ s_context_count' = s_context_count
               /\ s_current_app_id' = s_current_app_id ]_vars

\* The start of an installed app failed at load (the script file is
\* missing) while another app is the current one.
C6_Witness ==
    /\ call.op = "start_app" /\ call.ret = ESP_ERR_NOT_FOUND
    /\ call.id \in InstalledIds
    /\ s_current_app_id # EmptyId
    /\ s_sandbox_count >= 1

\* C7: stop_app returns ESP_OK for every installed id; it clears
\* s_current_app_id exactly when the app was Running and the pointer held its
\* id; for an app that is Stopped it changes nothing.
C7_StopClearsOwnPointer ==
    [][ LET i == FindApp(s_installed_apps, call'.id)
        IN  (call'.op = "stop_app" /\ i # 0)
            => /\ call'.ret = ESP_OK
               /\ IF s_installed_apps[i].state = APP_STATE_RUNNING
                     /\ s_current_app_id = call'.id
                  THEN s_current_app_id' = EmptyId
                  ELSE s_current_app_id' = s_current_app_id
               /\ s_installed_apps[i].state # APP_STATE_RUNNING
                  => UNCHANGED << s_installed_apps, s_current_app_id,
                                  s_sandboxes, s_sandbox_count, s_contexts,
                                  s_context_count >> ]_vars

\* stop_app returned ESP_OK for the current app and the pointer is empty
\* while another app still runs.
C7_Witness ==
    /\ call.op = "stop_app" /\ call.ret = ESP_OK
    /\ call.id \in InstalledIds
    /\ s_current_app_id = EmptyId
    /\ Cardinality(RunningApps(s_installed_apps)) >= 1

\* C8: with MAX_INSTALLED_APPS records in the registry, install returns
\* ESP_ERR_NO_MEM and the registry is unchanged, still with
\* MAX_INSTALLED_APPS records.
C8_InstallAtCapacity ==
    [][ (call'.op = "install"
         /\ Len(s_installed_apps) = MAX_INSTALLED_APPS)
        => /\ call'.ret = ESP_ERR_NO_MEM
           /\ s_installed_apps' = s_installed_apps
           /\ Len(s_installed_apps') = MAX_INSTALLED_APPS
           /\ UNCHANGED << s_sandboxes, s_sandbox_count, s_current_app_id,
                           fs_dirs >> ]_vars

\* install was refused with the registry full while an app runs.
C8_Witness ==
    /\ call.op = "install" /\ call.ret = ESP_ERR_NO_MEM
    /\ Len(s_installed_apps) = MAX_INSTALLED_APPS
    /\ RunningApps(s_installed_apps) # {}

\* C9: after a successful install of a package that declares name, version,
\* entry point and permission string P, the new record has that name,
\* version and entry point, is Stopped, and its permissions are the parse of
\* P: a package declaring "gpio.read,rf.transmit" gets APP_PERM_GPIO_READ
\* and not APP_PERM_GPIO_WRITE.
C9_RecordFromPackage ==
    (call.op = "install" /\ call.ret = ESP_OK)
    => LET i == FindApp(s_installed_apps, call.id)
           declared == Packages[call.pkg].manifest
       IN  /\ i # 0
           /\ s_installed_apps[i].name = declared.name
           /\ s_installed_apps[i].version = declared.version
           /\ s_installed_apps[i].entry_point = declared.entry_point
           /\ s_installed_apps[i].state = APP_STATE_STOPPED
           /\ s_installed_apps[i].permissions
                  = app_permissions_parse_string(declared.permissions)
           /\ app_manager_check_permission(s_installed_apps, call.id,
                                           APP_PERM_GPIO_READ)
           /\ ~app_manager_check_permission(s_installed_apps, call.id,
                                            APP_PERM_GPIO_WRITE)

\* C10: no two records of the registry have the same id, and an install
\* that succeeds returns an id that no record had before it.
C10_UniqueIds ==
    /\ \A i, j \in 1..Len(s_installed_apps) :
           s_installed_apps[i].id = s_installed_apps[j].id => i = j
    /\ (call.op = "install" /\ call.ret = ESP_OK)
       => Cardinality({i \in 1..Len(s_installed_apps) :
                          s_installed_apps[i].id = call.id}) = 1

\* esp_random() returned the id of a record of the registry, and the install
\* failed at mkdir.
C10_Witness ==
    /\ call.op = "install" /\ call.ret = ESP_FAIL
    /\ call.id \in InstalledIds
    /\ Len(s_installed_apps) >= 2

\* The grant stored for app_id, no bit when none is stored.
Stored(store, app_id) ==
    IF app_id \in DOMAIN store THEN store[app_id] ELSE {}

\* C11: after a successful install the Permission Store holds a grant for
\* the new id that equals the cached permissions of its record: load(id)
\* returns them, and app_permissions_check and app_manager_check_permission
\* agree for every mask.
C11_InstallPersistsGrant ==
    (call.op = "install" /\ call.ret = ESP_OK)
    => LET i == FindApp(s_installed_apps, call.id)
           l == PermLoad(nvs, nvs_namespace, call.id, "none")
       IN  /\ call.id \in DOMAIN nvs
           /\ l.ret = ESP_OK
           /\ l.permissions = s_installed_apps[i].permissions
           /\ \A b \in 0..(PERMISSION_COUNT - 1) :
                  PermCheck(nvs, nvs_namespace, call.id, {b}, "none")
                  = app_manager_check_permission(s_installed_apps,
                                                 call.id, {b})

\* C12: for an app id for which no grant was saved, also when the namespace
\* does not exist, load returns ESP_OK with no bit (when NVS can be read:
\* nvs_get_u32 reports no error other than not-found), and check is false
\* for every mask, whatever NVS does.
C12_AbsentIsEmpty ==
    /\ (pcall.op = "load" /\ pcall.id \notin DOMAIN nvs
        /\ pcall.fault # "get")
       => (pcall.ret = ESP_OK /\ pcall.out = {})
    /\ (pcall.op = "check" /\ pcall.id \notin DOMAIN nvs)
       => pcall.ret = "false"
    /\ \A id \in PermIds \cup {UnknownId}, m \in Masks, f \in LoadFaults :
           id \notin DOMAIN nvs
           => ~PermCheck(nvs, nvs_namespace, id, m, f)

\* check of every bit was false for an id without a grant in a namespace
\* that exists.
C12_Witness ==
    /\ pcall.op = "check" /\ pcall.ret = "false" /\ pcall.fault = "none"
    /\ pcall.mask = PermBits
    /\ pcall.id \notin DOMAIN nvs
    /\ nvs_namespace

\* C13: after a grant(id, X) that succeeded, check(id, X) is true, whatever
\* was stored before; after a grant(id, X) and then a revoke(id, X) that
\* succeeded, the loaded bitset has no bit of X.
C13_GrantThenRevoke ==
    [][ /\ (pcall'.op = "grant" /\ pcall'.ret = ESP_OK /\ pcall'.mask # {})
           => PermCheck(nvs', nvs_namespace', pcall'.id, pcall'.mask, "none")
        /\ (pcall.op = "grant" /\ pcall.ret = ESP_OK
            /\ pcall'.op = "revoke" /\ pcall'.ret = ESP_OK
            /\ pcall'.id = pcall.id /\ pcall'.mask = pcall.mask)
           => LET l == PermLoad(nvs', nvs_namespace', pcall'.id, "none")
              IN  l.ret = ESP_OK /\ l.permissions \cap pcall'.mask = {}
      ]_vars

\* A revoke succeeded for a bit of a grant that keeps another bit.
C13_Witness ==
    /\ pcall.op = "revoke" /\ pcall.ret = ESP_OK
    /\ Cardinality(pcall.mask) = 1
    /\ pcall.id \in DOMAIN nvs
    /\ nvs[pcall.id] # {}
    /\ nvs[pcall.id] \cap pcall.mask = {}

\* C14: grant(id, b) keeps every bit stored for id and adds only bits of b,
\* also when its load step fails; revoke(id, b) leaves every bit outside b
\* as it was; grant and revoke leave the grants of other ids alone; load and
\* check change no stored grant.
C14_BitsChangeOnlyExplicitly ==
    [][ LET id == pcall'.id
            old == Stored(nvs, id)
            new == Stored(nvs', id)
            others == \A k \in DOMAIN nvs :
                          k # id => (k \in DOMAIN nvs' /\ nvs'[k] = nvs[k])
        IN  /\ pcall'.op = "grant"
               => (old \subseteq new /\ new \subseteq old \cup pcall'.mask
                   /\ others)
            /\ pcall'.op = "revoke"
               => (new \ pcall'.mask = old \ pcall'.mask /\ others)
            /\ pcall'.op \in {"load", "check", "check_permission"}
               => nvs' = nvs
      ]_vars

\* C15: app_permissions_check(id, mask) is true iff the grant stored for id
\* and mask share a bit (when NVS can be read), and
\* app_manager_check_permission(id, mask) is true iff id is in the registry
\* and its cached permissions and mask share a bit; an unknown id and the
\* mask 0 give false.
C15_AnyBitSemantics ==
    /\ (pcall.op = "check" /\ pcall.fault = "none")
       => (pcall.ret = "true"
           <=> Stored(nvs, pcall.id) \cap pcall.mask # {})
    /\ pcall.op = "check_permission"
       => (pcall.ret = "true"
           <=> \E i \in 1..Len(s_installed_apps) :
                   /\ s_installed_apps[i].id = pcall.id
                   /\ s_installed_apps[i].permissions \cap pcall.mask # {})
    /\ (pcall.op \in {"check", "check_permission"} /\ pcall.mask = {})
       => pcall.ret = "false"

\* check was true for a mask of two bits of which the grant has one.
C15_Witness ==
    /\ pcall.op = "check" /\ pcall.ret = "true"
    /\ Cardinality(pcall.mask) = 2
    /\ Cardinality(Stored(nvs, pcall.id) \cap pcall.mask) = 1

\* A token without the blanks at its start and at its end.
RECURSIVE WithoutLeadingBlanks(_)
WithoutLeadingBlanks(token) ==
    IF token # <<>> /\ Head(token) \in Blanks
    THEN WithoutLeadingBlanks(Tail(token))
    ELSE token

RECURSIVE WithoutTrailingBlanks(_)
WithoutTrailingBlanks(token) ==
    IF token # <<>> /\ token[Len(token)] \in Blanks
    THEN WithoutTrailingBlanks(SubSeq(token, 1, Len(token) - 1))
    ELSE token

\* The recognised names, from entry i of the table on, that are a
\* whitespace-trimmed token of csv.
RECURSIVE CanonicalFrom(_, _)
CanonicalFrom(i, csv) ==
    IF i > PERMISSION_COUNT THEN <<>>
    ELSE IF \E k \in 1..Len(csv) :
                WithoutTrailingBlanks(WithoutLeadingBlanks(csv[k]))
                = <<permission_map[i].name>>
         THEN << <<permission_map[i].name>> >> \o CanonicalFrom(i + 1, csv)
         ELSE CanonicalFrom(i + 1, csv)

\* C16: to_string(parse(P)) is the list, in the order of the table and each
\* name once, of the recognised names that are a whitespace-trimmed token of
\* P; and parse(to_string(b)) = b for every bitset b over the nine bits.
C16_RoundTrip ==
    /\ fcall.op = "parse_to_string"
       => fcall.text = CanonicalFrom(1, fcall.csv)
    /\ fcall.op = "to_string_parse" => fcall.back = fcall.bits

\* The script declares name with an initialiser (var name = ...).
Declares(code, name) ==
    /\ Len(code) >= 3
    /\ code[1] \in DeclKeywords
    /\ code[2] = name
    /\ code[3] = "="

C18_RecordedErrorFailsStart ==
    (engine.op = "execute" /\ engine.ctx.mjs.error_msg # <<>>) =>
        /\ engine.result = JS_EXEC_ERROR
        /\ mjs_get_error_message(engine.ctx.mjs)
           \in {"Unterminated string", "Syntax error"}
        /\ engine.s_error_callback =>
              \E k \in 1..Len(engine.ctx.mjs.reported) :
                 engine.ctx.mjs.reported[k]
                 = mjs_get_error_message(engine.ctx.mjs)
        /\ engine.ret # ESP_OK
        /\ engine.state # APP_STATE_RUNNING

\* C19: the Error lifecycle state is reachable: when the execution of an
\* app's script fails (start_app returns ESP_FAIL), the registry record of
\* the app is in state Error.
C19_ExecutionFailureGivesError ==
    (call.op = "start_app" /\ call.ret = ESP_FAIL) =>
        \A i \in 1..Len(s_installed_apps) :
           s_installed_apps[i].id = call.id
           => s_installed_apps[i].state = APP_STATE_ERROR

\* C20: install, start_app, stop_app, list_apps, check_permission and
\* get_current_app read and write registry state only while the calling task
\* holds the registry mutex, and no task sees a partly written current-app
\* id.
C20_RegistryUnderMutex ==
    /\ access.op # "none" => access.locked
    /\ \A t \in Tasks :
          task[t].seen \in {<<>>} \cup {CString(id) : id \in TaskAppIds}

C22_FullPoolRefuses ==
    [][ LET i == FindApp(s_installed_apps, call'.id)
        IN  (call'.op = "start_app" /\ i # 0
             /\ s_installed_apps[i].state # APP_STATE_RUNNING
             /\ \A s \in SandboxSlots : s_sandboxes[s].active)
            => /\ call'.ret = ESP_ERR_NO_MEM
               /\ UNCHANGED << s_installed_apps, s_current_app_id,
                               s_sandboxes, s_sandbox_count, s_contexts,
                               s_context_count >> ]_vars

\* The start of a ninth app was refused: every slot is active, as many
\* contexts are live as before, and the app is Stopped without a context.
C22_Witness ==
    /\ call.op = "start_app" /\ call.ret = ESP_ERR_NO_MEM
    /\ \A s \in SandboxSlots : s_sandboxes[s].active
    /\ s_context_count = MAX_SANDBOXES
    /\ \E i \in 1..Len(s_installed_apps) :
          /\ s_installed_apps[i].id = call.id
          /\ s_installed_apps[i].state = APP_STATE_STOPPED
          /\ s_installed_apps[i].js_context = NULL

\* The names of a table.
GlobalNames(globals) == {globals[i].name : i \in 1..Len(globals)}

\* C23: in a global table names are unique; get_global(n) is the value of
\* the most recent accepted binding of n, and undefined when n was never
\* bound; binding the name of a registered native function again replaces
\* the native reference.
C23_LastWriteWins ==
    /\ Cardinality(GlobalNames(gtable.globals)) = Len(gtable.globals)
    /\ \A n \in CalledNames \cup DOMAIN gtable.bound :
          mjs_get_global(gtable.globals, n)
          = IF n \in DOMAIN gtable.bound THEN gtable.bound[n]
            ELSE MJS_UNDEFINED
    /\ gtable.op = "get_global" =>
          gtable.got = IF gtable.name \in DOMAIN gtable.bound
                       THEN gtable.bound[gtable.name] ELSE MJS_UNDEFINED

\* get_global("print") returned a script's value after print had been
\* registered as a native function.
C23_Witness ==
    /\ gtable.op = "get_global" /\ gtable.name = "print"
    /\ gtable.got \in ScriptValues
    /\ Len(gtable.globals) > Len(BuiltinNames)
    /\ gtable.globals[4].name = "print"

\* C24: a global table never holds more than MAX_GLOBALS bindings; when it
\* holds MAX_GLOBALS, set_global of a name that is not in it leaves the table
\* as it is, and set_global of a name that is in it gives the name the new
\* value.
C24_CapacityDropsNewNames ==
    [][ /\ Len(gtable'.globals) <= MAX_GLOBALS
        /\ (gtable'.op = "set_global"
            /\ Len(gtable.globals) = MAX_GLOBALS)
           => LET i == GlobalIndex(gtable.globals, gtable'.name)
              IN  IF i = 0 THEN gtable'.globals = gtable.globals
                  ELSE gtable'.globals
                       = [gtable.globals EXCEPT ![i].value = gtable'.val]
      ]_vars

\* set_global was called on a full table with a name that is not in it.
C24_Witness ==
    /\ gtable.op = "set_global"
    /\ Len(gtable.globals) = MAX_GLOBALS
    /\ GlobalIndex(gtable.globals, gtable.name) = 0

\* The names of a sequence.
Range(names) == {names[i] : i \in 1..Len(names)}

\* The native catalogue: the functions of the API modules and the built-in
\* functions.
NativeCatalogue ==
    Range(RfApiNames) \cup Range(GpioApiNames) \cup Range(UiApiNames)
    \cup Range(StorageApiNames) \cup Range(NotificationApiNames)
    \cup Range(BuiltinNames)

\* C25: after app_sandbox_create has succeeded, every function of the native
\* catalogue (rf.*, gpio.*, ui.*, storage.*, notify.*, console.log,
\* setTimeout, clearTimeout, print) is bound to a native-function reference
\* in the global table of the sandbox's context.
C25_CatalogueBound ==
    \A s \in SandboxSlots :
       s_sandboxes[s].active =>
          \A n \in NativeCatalogue :
             IsBoundNative(s_contexts[s_sandboxes[s].js_context].globals, n)

\* C26: cc1101_init on a driver that is not initialised, with a valid
\* configuration and a module that responds, returns ESP_OK and leaves the
\* driver initialised, and cc1101_get_frequency then returns the configured
\* frequency.
C26_InitSucceeds ==
    [][ (/\ radio'.last.op = "cc1101_init"
         /\ ~radio.driver.s_initialized
         /\ ~radio'.last.config.null
         /\ radio'.last.config.spi_device
         /\ radio'.last.present)
        => /\ radio'.last.ret = ESP_OK
           /\ radio'.driver.s_initialized
           /\ radio'.driver.frequency_hz = radio'.last.config.frequency_hz
      ]_vars

\* C27: on an initialised driver, cc1101_start_spectrum_analysis with
\* start <= stop and step > 0 returns ESP_OK and sets the running flag; with
\* start > stop or step = 0 it returns ESP_ERR_INVALID_ARG and leaves the
\* running flag and the stored sweep as they were;
\* cc1101_stop_spectrum_analysis returns ESP_OK and clears the flag.
C27_SpectrumStartStop ==
    [][ /\ (radio.driver.s_initialized
            /\ radio'.last.op = "cc1101_start_spectrum_analysis")
           => IF radio'.last.start <= radio'.last.stop
                 /\ radio'.last.step > 0
              THEN /\ radio'.last.ret = ESP_OK
                   /\ radio'.driver.s_spectrum_analysis_running
                   /\ radio'.driver.s_initialized
              ELSE /\ radio'.last.ret = ESP_ERR_INVALID_ARG
                   /\ radio'.driver = radio.driver
        /\ (radio.driver.s_initialized
            /\ radio'.last.op = "cc1101_stop_spectrum_analysis")
           => /\ radio'.last.ret = ESP_OK
              /\ ~radio'.driver.s_spectrum_analysis_running
      ]_vars

\* A sweep from a frequency to the same frequency was accepted on an
\* initialised driver and is running.
C27_Witness ==
    /\ radio.driver.s_initialized
    /\ radio.last.op = "cc1101_start_spectrum_analysis"
    /\ radio.last.ret = ESP_OK
    /\ radio.last.start = radio.last.stop
    /\ radio.driver.s_spectrum_analysis_running
    /\ radio.driver.s_spectrum_start_freq = radio.driver.s_spectrum_stop_freq

\* C28: set_limits(id, m, t) on an id with an active sandbox returns ESP_OK
\* and changes only the memory_limit and time_limit of that sandbox: the
\* engine contexts (their memory_limit and execution_time_limit_ms), every
\* other sandbox and the registry stay as they were; on an id without an
\* active sandbox it returns ESP_ERR_NOT_FOUND and changes nothing.
C28_SetLimitsFrame ==
    [][ (call'.op = "set_limits" /\ clock' = clock)
        => LET slot == find_sandbox(s_sandboxes, call'.id)
           IN  /\ s_contexts' = s_contexts
               /\ s_installed_apps' = s_installed_apps
               /\ s_sandbox_count' = s_sandbox_count
               /\ s_context_count' = s_context_count
               /\ IF slot # NULL
                  THEN /\ call'.ret = ESP_OK
                       /\ s_sandboxes' =
                            [s_sandboxes EXCEPT
                               ![slot].memory_limit = call'.memory_limit,
                               ![slot].time_limit = call'.time_limit]
                  ELSE /\ call'.ret = ESP_ERR_NOT_FOUND
                       /\ s_sandboxes' = s_sandboxes
      ]_vars

\* set_limits succeeded on a sandbox whose context keeps other limits, while
\* another sandbox is active.
C28_Witness ==
    /\ call.op = "set_limits"
    /\ call.ret = ESP_OK
    /\ LET slot == find_sandbox(s_sandboxes, call.id)
       IN  /\ slot # NULL
           /\ s_sandboxes[slot].memory_limit = call.memory_limit
           /\ s_sandboxes[slot].time_limit = call.time_limit
           /\ s_contexts[s_sandboxes[slot].js_context].memory_limit
              # call.memory_limit
           /\ s_contexts[s_sandboxes[slot].js_context].execution_time_limit_ms
              # call.time_limit
           /\ \E other \in SandboxSlots \ {slot} : s_sandboxes[other].active

\* The time from start to now is more than limit milliseconds: start and now
\* with the wraps of the 32-bit count taken into account.
ElapsedExceeds(start, now, limit) ==
    IF now.epoch = start.epoch \/ (now.epoch = start.epoch + 1
                                   /\ Gt32(start.ms, now.ms))
    THEN Gt32(Sub32(now.ms, start.ms), ToU32(limit))
    ELSE TRUE

\* C29: check_access(id, r) is false if id has no active sandbox; false if
\* the time since the sandbox was created exceeds its time_limit; false if r
\* contains "/system/" and the app lacks SYSTEM; false if r contains "rf."
\* and the app holds neither RF_RECEIVE nor RF_TRANSMIT; true otherwise.
C29_CheckAccess ==
    [][ (call'.op = "check_access" /\ clock' = clock)
        => LET slot == find_sandbox(s_sandboxes, call'.id)
               Holds(permission) ==
                   app_manager_check_permission(s_installed_apps, call'.id,
                                                permission)
           IN  call'.allowed =
                 IF slot = NULL THEN FALSE
                 ELSE IF ElapsedExceeds(s_sandboxes[slot].start_time,
                                        clock.now,
                                        s_sandboxes[slot].time_limit)
                 THEN FALSE
                 ELSE IF /\ "/system/" \in Range(call'.resource)
                         /\ ~Holds(APP_PERM_SYSTEM)
                 THEN FALSE
                 ELSE IF /\ "rf." \in Range(call'.resource)
                         /\ ~Holds(APP_PERM_RF_RECEIVE)
                         /\ ~Holds(APP_PERM_RF_TRANSMIT)
                 THEN FALSE
                 ELSE TRUE
      ]_vars

\* C30 as the specification states it: load_file and load_string accept a
\* text iff its size is at most memory_limit / 2, reject a larger one with
\* ESP_ERR_INVALID_SIZE, and a rejected load leaves the code and the
\* filename of the context unchanged.
C30_AcceptIffWithinHalf ==
    [][ (loader'.last.op \in {"load_file", "load_string"}
         /\ loader'.last.fault = "none")
        => LET fits == loader'.last.text.len
                       <= loader.ctx.memory_limit \div 2
           IN  /\ (loader'.last.ret = ESP_OK) <=> fits
               /\ ~fits => loader'.last.ret = ESP_ERR_INVALID_SIZE
               /\ loader'.last.ret # ESP_OK => loader'.ctx = loader.ctx
      ]_vars

\* C30, amended: load_string accepts a text iff its size is at most
\* memory_limit / 2; load_file accepts a file that it can open and read iff
\* 0 < size <= memory_limit / 2; both reject with ESP_ERR_INVALID_SIZE
\* otherwise, and every rejected load leaves the code and the filename of the
\* context unchanged.
C30_LoadSizeLimit ==
    [][ loader'.last.op \in {"load_file", "load_string"}
        => LET len == loader'.last.text.len
               fits == /\ len <= loader.ctx.memory_limit \div 2
                       /\ loader'.last.op = "load_file" => len > 0
           IN  /\ loader'.last.fault = "none"
                  => /\ (loader'.last.ret = ESP_OK) <=> fits
                     /\ ~fits => loader'.last.ret = ESP_ERR_INVALID_SIZE
               /\ loader'.last.ret = ESP_OK
                  => /\ loader'.ctx.code = loader'.last.text
                     /\ loader'.ctx.memory_limit = loader.ctx.memory_limit
               /\ loader'.last.ret # ESP_OK => loader'.ctx = loader.ctx
      ]_vars

\* A text one byte over half of an odd limit was rejected, and the context
\* still holds the text of exactly half the limit that was loaded before.
C30_Witness ==
    /\ loader.last.op \in {"load_file", "load_string"}
    /\ loader.last.fault = "none"
    /\ loader.last.ret = ESP_ERR_INVALID_SIZE
    /\ loader.ctx.memory_limit % 2 = 1
    /\ loader.last.text.len = loader.ctx.memory_limit \div 2 + 1
    /\ loader.ctx.code.len = loader.ctx.memory_limit \div 2
    /\ loader.ctx.code.id # loader.last.text.id
    /\ loader.ctx.filename # ""

\* A call of thread u that passed the check of its arguments returns in this
\* step.
Completes(u) == thread[u].pc = "give" /\ thread'[u].pc = "idle"

InProgress(t) == thread[t].pc \in {"locked", "execute", "give"}

\* Thread t has returned from a call.
Returned(t) == thread[t].pc = "idle" /\ thread[t].op # "none"

SandboxesOf(app_id) ==
    {i \in SandboxSlots : s_sandboxes[i].active
                           /\ s_sandboxes[i].app_id = app_id}

ContextsOf(app_id) ==
    {c \in ContextSlots :
        /\ s_contexts[c].live
        /\ \E i \in SandboxesOf(app_id) : s_sandboxes[i].js_context = c}

\* The start_app of thread t is about to return on a path on which neither
\* the sandbox, nor the load, nor the execution failed.
StartSucceeds(t) ==
    /\ thread[t].pc = "give"
    /\ thread[t].op = "start_app"
    /\ thread[t].path \notin {"sandbox", "load", "execute"}

\* C37: when two threads call start_app concurrently for the same Stopped
\* app, each call whose sandbox, load and execution did not fail returns
\* ESP_OK, and when it returns the app is Running and is the current app,
\* with exactly one active sandbox and exactly one live engine context for
\* it; the same holds for every start_app of an installed app.
C37_ConcurrentStart ==
    \A t \in Threads :
       /\ thread[t].overlaps => thread[t].path # "not_found"
       /\ StartSucceeds(t) /\ thread[t].path # "not_found"
          => LET app_id == thread[t].app_id
                 i == FindApp(s_installed_apps, app_id)
             IN  /\ thread[t].ret = ESP_OK
                 /\ s_installed_apps[i].state = APP_STATE_RUNNING
                 /\ s_current_app_id = app_id
                 /\ Cardinality(SandboxesOf(app_id)) = 1
                 /\ Cardinality(ContextsOf(app_id)) = 1
                 /\ s_sandbox_count = 1
                 /\ s_context_count = 1
                 /\ s_installed_apps[i].js_context \in ContextsOf(app_id)

\* Two threads called start_app for the Stopped app before either had the
\* mutex: one has created the sandbox, started the app and returned ESP_OK,
\* the other has found the app Running and is about to return ESP_OK.
C37_Witness ==
    \E t \in Threads, u \in Threads :
       /\ t # u
       /\ thread[t].overlaps
       /\ StartSucceeds(t)
       /\ thread[t].path = "running"
       /\ thread[t].ret = ESP_OK
       /\ Returned(u)
       /\ thread[u].op = "start_app"
       /\ thread[u].path = "ok"
       /\ thread[u].ret = ESP_OK
       /\ s_sandbox_count = 1
       /\ s_context_count = 1

\* C32: a grant or a revoke for one app id never changes what is stored for
\* another app id, whichever calls overlap it; for the same app id the save
\* of a call writes the bitset that its own load read, combined with its
\* flag, whatever another call stored in between (the save of a stale grant
\* drops the bit that the other grant stored).
C32_OtherIdsUntouched ==
    [][ \A t \in TwoThreads :
          updater[t].pc = "loaded" /\ updater'[t].pc = "done"
          => /\ \A other \in UpdateIds \ {updater[t].app_id} :
                   /\ Stored(nvs', other) = Stored(nvs, other)
                   /\ other \in DOMAIN nvs' <=> other \in DOMAIN nvs
             /\ updater'[t].ret = ESP_OK
                => Stored(nvs', updater[t].app_id) = Updated(updater[t])
      ]_vars

\* Lost update: two threads granted different flags to the same app id, both
\* loads and both saves succeeded, the two calls overlapped, and the stored
\* bitset lacks the flag of one of them.
C32_Witness ==
    \E t \in TwoThreads, u \in TwoThreads :
       /\ t # u
       /\ updater[t].pc = "done" /\ updater[u].pc = "done"
       /\ updater[t].op = "grant" /\ updater[u].op = "grant"
       /\ updater[t].app_id = updater[u].app_id
       /\ updater[t].permission # updater[u].permission
       /\ updater[t].lret = ESP_OK /\ updater[u].lret = ESP_OK
       /\ updater[t].ret = ESP_OK /\ updater[u].ret = ESP_OK
       /\ updater[t].stale
       /\ ~(updater[u].permission \subseteq
               Stored(nvs, updater[t].app_id))

\* C34: a mjs_engine_deinit that has begun terminates, and when it has, no
\* context is live, the context count is 0, the engine mutex is deleted and
\* the engine is not initialised.
C34_DeinitTerminates ==
    /\ (s_engine.pc # "idle") ~> (s_engine.pc = "idle")
    /\ [](s_engine.pc = "idle" /\ ~s_engine.s_initialized
            => /\ \A c \in ContextSlots : ~s_contexts[c].live
               /\ s_context_count = 0
               /\ s_engine.s_engine_mutex = NULL)

\* The call that was made last failed.
PoolCallFailed == pool_calls.op # "none" /\ pool_calls.ret # ESP_OK

\* C35: after every sequence of sandbox creates and destroys and of engine
\* context creates and destroys the sandbox counter is the number of active
\* sandbox slots, the context counter is the number of occupied context
\* slots, and both are within 0..8; a create that fails and a destroy for an
\* app without an active sandbox change neither the pools nor the counters.
C35_CountersMatchSlots ==
    /\ [](/\ s_sandbox_count
               = Cardinality({i \in SandboxSlots : s_sandboxes[i].active})
           /\ s_context_count
               = Cardinality({c \in ContextSlots : s_contexts[c].live})
           /\ s_sandbox_count \in 0..MAX_SANDBOXES
           /\ s_context_count \in 0..MAX_CONTEXTS)
    /\ [][ pool_calls' # pool_calls /\ PoolCallFailed'
           => UNCHANGED << s_sandboxes, s_sandbox_count, s_contexts,
                           s_context_count >> ]_vars

\* The context pool is full, one of its contexts was created without a
\* sandbox, and the create of one more sandbox has failed.
C35_Witness ==
    /\ pool_calls.op = "sandbox_create"
    /\ pool_calls.ret = ESP_ERR_NO_MEM
    /\ s_context_count = MAX_CONTEXTS
    /\ s_sandbox_count = MAX_SANDBOXES - 1
    /\ \E c \in ContextSlots :
          /\ s_contexts[c].live
          /\ \A i \in SandboxSlots :
                s_sandboxes[i].active => s_sandboxes[i].js_context # c

\* C36: an install that fails after the capacity check, in the extraction
\* of the package or in the load of the manifest, leaves the registry as it
\* was: the same records with the same fields, states and permissions, the
\* same count, and the same current app.
C36_FailedInstallKeepsRegistry ==
    [][ /\ call'.op = "install"
        /\ call'.ret \notin {ESP_OK, ESP_ERR_NO_MEM}
        /\ call' # call \/ fs_dirs' # fs_dirs
        => /\ s_installed_apps' = s_installed_apps
           /\ Len(s_installed_apps') = Len(s_installed_apps)
           /\ s_current_app_id' = s_current_app_id
      ]_vars

\* An install failed in the load of the manifest after the directory was
\* made, while the registry holds a record and an app is the current app.
C36_Witness ==
    /\ call.op = "install"
    /\ call.ret = ESP_ERR_NOT_FOUND
    /\ call.id \in fs_dirs
    /\ Len(s_installed_apps) >= 1
    /\ s_current_app_id # EmptyId
    /\ \A i \in 1..Len(s_installed_apps) : s_installed_apps[i].id # call.id

\* C38: a wifi_manager_connect that has returned ESP_OK had a got-IP event
\* handled after it began, and one that has returned ESP_FAIL had 5
\* reconnection retries made after it began.
C38_OutcomeFromOwnEvents ==
    wifi.pc = "idle"
    => /\ wifi.ret = ESP_OK => wifi.got_ip
       /\ wifi.ret = ESP_FAIL => wifi.retries = WIFI_MAX_RETRY


====
